---- MODULE Spec2Model ----
(***************************************************************************)
(* A model of the charitylens data-acquisition and scoring pipeline:       *)
(*   - RateLimiter            (internal/api, token bucket)                  *)
(*   - Client.doRequest       (internal/api, keys, retries)                 *)
(*   - Scraper                (cmd/charityseeder, feeder / workers)         *)
(*   - Importer               (internal/importer, streaming batches)        *)
(*   - the relational store   (migrations, INSERT OR REPLACE)               *)
(*   - CalculateScore         (internal/scoring)                            *)
(*   - DownloadFiles          (bulk data downloader)                        *)
(*   - Client.GetKeyStats     (internal/api, key masking)                   *)
(*   - CalculateAllScores     (internal/importer, score mode)               *)
(* Each component has its own specification (SpecRL, SpecClient, ...); the  *)
(* variables of the other components stay at their initial values.          *)
(***************************************************************************)
EXTENDS Integers, Sequences, FiniteSets, TLC

VARIABLES
    \* ---- RateLimiter (ratelimiter.go:10-17) and its callers
    rlRate,          \* requestsPerSecond handed to NewRateLimiter
    tokens,          \* rl.tokens
    lastRefill,      \* rl.lastRefill
    requestHistory,  \* rl.requestHistory (timestamps of completed Waits)
    clock,           \* time.Now(), in ticks
    rlpc,            \* per caller: "idle" | "sleeping" | "ctxwake"
    rlWake,          \* per caller: earliest time the time.After channel fires
    rlCalls,         \* number of Wait calls started so far
    rlCancelled,     \* the context handed to Wait is done
    rlResult,        \* per caller: what its latest Wait returned
    rlBlockedAtCancel, \* per caller: parked in Wait's select when the signal came
    rlSnap,          \* tokens and history length when the signal came
    rlCompleted      \* the times at which a Wait returned nil, none dropped

VARIABLES
    \* ---- Client (ratelimiter.go:130-140) and its doRequest calls
    numKeys,         \* len(c.apiKeys)
    keyIndex,        \* c.keyIndex, the atomic round-robin counter
    keyTotal,        \* per key: KeyStats.TotalRequests
    keyFailed,       \* per key: KeyStats.FailedRequests
    ctxDone,         \* the request context has been cancelled
    rqpc,            \* per doRequest call: position in the retry loop
    attempt,         \* per call: the loop variable attempt
    currentKey,      \* per call: currentKey
    lastErr,         \* per call: lastErr
    waitTime,        \* per call: seconds of the sleep in progress
    result,          \* per call: what doRequest returned
    reqStarted,      \* number of doRequest calls started
    selCount,        \* per key: times getNextAPIKey returned it
    lastSel,         \* the key getNextAPIKey returned last (-1: none yet)
    sent,            \* per call: HTTP requests sent
    nf,              \* per call: an attempt was answered 404
    afterNF,         \* per call: sends and sleeps that followed the 404
    lastOutcome,     \* per call: the outcome of its latest attempt
    lastRetryAfter   \* per call, during the sleep after a 429: "int" when the
                     \* Retry-After header held an integer

VARIABLES
    \* ---- the relational store (migrations 003, 010, 011)
    charities,       \* table charities: rows keyed by organisation_number
    financials,      \* table financials: rows keyed by (charity_number, financial_year_end)
    trustees,        \* table trustees: rows keyed by (charity_number, name)
    history,         \* table annual_return_history: rows keyed by the autoincrement id
    histSeq,         \* the AUTOINCREMENT sequence of annual_return_history
    dbNow            \* time.Now() as written to last_updated: one value per operation

VARIABLES
    \* ---- single-organization writers: Scraper.storeCharity, FetchAndStoreCharity
    stpc,            \* per process: "idle" | "tx" (storeCharity) | "fs" (FetchAndStoreCharity)
    stData,          \* per process: the fetched data being stored
    stExec,          \* per process: statements executed so far
    stResult,        \* per process: what the last call returned
    stOps            \* number of operations started

VARIABLES
    \* ---- the crawler: runAPIScrape, Scraper.scrape, Scraper.worker
    cfgW,            \* config.Concurrency of the current run
    cfgResume,       \* config.ResumeFrom of the current run (0: not given)
    checkpoint,      \* scraper_checkpoints.last_charity_number (0: no row)
    crpc,            \* the main routine: "off" | "wait" (wg.Wait) | "done"
    runs,            \* runs started so far
    runStart,        \* startCharity of the current run
    runCkpt,         \* what loadCheckpoint returned to the current run
    currentCharity,  \* s.stats.CurrentCharity
    feedpc,          \* the feeder: "off" | "loop" | "sent" | "closed"
    feedNum,         \* the feeder's loop variable charityNum
    queue,           \* workQueue: the buffered identifiers
    qClosed,         \* close(workQueue) has run
    cancelled,       \* s.ctx is done
    wpc,             \* per worker: "off" | "recv" | "got" | "exit"
    witem,           \* per worker: the identifier it holds
    totalProcessed,  \* s.stats.TotalProcessed
    successful,      \* s.stats.Successful
    failed,          \* s.stats.Failed
    skipped,         \* s.stats.Skipped
    recvCount,       \* per identifier: times a worker received it in this run
    firstDispatched  \* the first identifier the feeder sent in this run (0: none)

VARIABLES
    \* ---- the stream importer (internal/importer)
    imFamily,        \* which import runs: "charity" | "trustee" | "financial" | "history"
    imInput,         \* the elements of the JSON array
    imBatchSize,     \* i.config.BatchSize
    impc,            \* "off" | "loop" (the decoder.More() loop) | "done"
    imPass,          \* imports of imInput started so far
    imPos,           \* the decoder's position: index of the next element
    imBatch,         \* batch
    totalRecords,    \* i.progress.TotalRecords (= recordNum)
    processedRecords,\* i.progress.ProcessedRecords
    successRecords,  \* i.progress.SuccessRecords
    skippedRecords,  \* i.progress.SkippedRecords
    failedRecords,   \* i.progress.FailedRecords
    imTxFailed,      \* some batch transaction failed so far
    imSnap,          \* the store as the first import of imInput left it
    imFlushed,       \* the records handed to insert*Batch so far, in call order
    imPeak,          \* the largest len(batch) reached in this import
    imLastTx         \* how the transaction of the latest step's flush ended

VARIABLES
    \* ---- scoring.CalculateScore
    scIn,            \* what the queries of CalculateScore find for the organization
    scNow,           \* the wall clock
    scOut,           \* the CharityScore returned (NoScore: none yet, or an error)
    scOutNow,        \* the wall-clock time of that call
    scPrev,          \* the CharityScore the call before it returned
    scPrevNow,       \* the wall-clock time of the call before it
    scErr,           \* the last call returned an error
    scoreRow,        \* the organization's row in charity_scores (NoScore: none)
    scCalls          \* CalculateScore calls so far

VARIABLES
    \* ---- downloader.DownloadFiles
    dlReq,           \* fileTypes, the requested list
    dlpc,            \* position of DownloadFiles: "off", "wait", "returned"
    dlwpc,           \* per goroutine: "off", "run", "got", "done"
    dlGot,           \* per goroutine: what DownloadFile returned
    dlResults,       \* keys of the results map
    dlErrors,        \* keys of the errors map
    dlRet            \* the error DownloadFiles returned: "none", "nil", "err"

dlVars == <<dlReq, dlpc, dlwpc, dlGot, dlResults, dlErrors, dlRet>>

VARIABLES
    \* ---- Client.GetKeyStats
    mkKey,           \* a configured key, a sequence of characters
    mkId,            \* the identifier GetKeyStats reports it under
    mkDone           \* GetKeyStats has returned

mkVars == <<mkKey, mkId, mkDone>>

VARIABLES
    \* ---- Importer.CalculateAllScores
    asCharities,     \* charities table: organisation_number -> row or NoOrg
    asScores,        \* charity_scores table: charity_number -> row or NoRow
    asBefore,        \* charity_scores as it was when the running call began
    aspc,            \* "idle" | "loop" | "done"
    asList,          \* allCharityNumbers
    asIdx,           \* position of the range loop in allCharityNumbers
    asFailed,        \* numbers whose CalculateScore returned an error in this call
    asProgress,      \* i.progress
    asRuns,          \* calls of CalculateAllScores so far
    asCurrent,       \* per number: the overall score its stored rows give now
    asChanges,       \* changes of stored data so far
    asChangedSince   \* numbers whose data changed after the latest call began

asVars == <<asCharities, asScores, asBefore, aspc, asList, asIdx, asFailed, asProgress,
            asRuns, asCurrent, asChanges, asChangedSince>>

VARIABLES
    \* ---- the web server's /health endpoint (cmd/charitylens main)
    readyChan,       \* number of values buffered in readyChan (capacity 1)
    hlSignalled,     \* the start-up goroutine has executed `readyChan <- true`
    hlpc,            \* per handler goroutine: "idle" | "ok" | "init" (branch taken)
    hlLate,          \* per handler goroutine: its request came after the signal
    hlLog,           \* the responses written so far, in order
    hlReqs           \* /health requests received so far

hlVars == <<readyChan, hlSignalled, hlpc, hlLate, hlLog, hlReqs>>

rlVars == <<rlRate, tokens, lastRefill, requestHistory, clock, rlpc, rlWake, rlCalls,
            rlCancelled, rlResult, rlBlockedAtCancel, rlSnap, rlCompleted>>

clVars == <<numKeys, keyIndex, keyTotal, keyFailed, ctxDone, rqpc, attempt, currentKey,
            lastErr, waitTime, result, reqStarted, selCount, lastSel, sent, nf, afterNF,
            lastOutcome, lastRetryAfter>>

dbVars == <<charities, financials, trustees, history, histSeq, dbNow>>

stVars == <<stpc, stData, stExec, stResult, stOps>>

crVars == <<cfgW, cfgResume, checkpoint, crpc, runs, runStart, runCkpt, currentCharity,
            feedpc, feedNum, queue, qClosed, cancelled, wpc, witem, totalProcessed,
            successful, failed, skipped, recvCount, firstDispatched>>

imVars == <<imFamily, imInput, imBatchSize, impc, imPass, imPos, imBatch, totalRecords,
            processedRecords, successRecords, skippedRecords, failedRecords, imTxFailed,
            imSnap,
            imFlushed, imPeak, imLastTx>>

scVars == <<scIn, scNow, scOut, scOutNow, scPrev, scPrevNow, scErr, scoreRow, scCalls>>

vars == <<rlVars, clVars, dbVars, stVars, crVars, imVars, scVars, dlVars, mkVars, asVars, hlVars>>

\* what the actions of one component leave alone
nonRL == <<clVars, dbVars, stVars, crVars, imVars, scVars, dlVars, mkVars, asVars, hlVars>>

nonClient == <<rlVars, dbVars, stVars, crVars, imVars, scVars, dlVars, mkVars, asVars, hlVars>>

nonStore == <<rlVars, clVars, crVars, imVars, scVars, dlVars, mkVars, asVars, hlVars>>

nonCrawl == <<rlVars, clVars, stVars, imVars, scVars, dlVars, mkVars, asVars, hlVars>>

nonImport == <<rlVars, clVars, stVars, crVars, scVars, dlVars, mkVars, asVars, hlVars>>

nonScore == <<rlVars, clVars, dbVars, stVars, crVars, imVars, dlVars, mkVars, asVars, hlVars>>

nonDownload == <<rlVars, clVars, dbVars, stVars, crVars, imVars, scVars, mkVars, asVars, hlVars>>

nonMask == <<rlVars, clVars, dbVars, stVars, crVars, imVars, scVars, dlVars, asVars, hlVars>>

nonAllScores == <<rlVars, clVars, dbVars, stVars, crVars, imVars, scVars, dlVars, mkVars, hlVars>>

nonHealth == <<rlVars, clVars, dbVars, stVars, crVars, imVars, scVars, dlVars, mkVars, asVars>>

(***************************************************************************)
(* Generic helpers                                                         *)
(***************************************************************************)
Min(a, b) == IF a < b THEN a ELSE b

Max(a, b) == IF a > b THEN a ELSE b

(***************************************************************************)
(* RateLimiter                                                             *)
(***************************************************************************)
\* time.Second, in clock ticks
Second == 6

\* largest rate drawn for NewRateLimiter
MaxRate == 2

\* the clock stops advancing here
MaxTime == 9

\* number of Wait calls issued
MaxCalls == 4

\* "Keep only last 100 requests"
HistoryCap == 100

Callers == {1}

\* largest number of goroutines that share one limiter
MaxCallers == 2

\* the goroutines that call Wait on the one limiter (the crawl workers)
SharedCallers == 1..MaxCallers

\* a loop that lets a caller through with no token left
NoTokenBelowZero(t) == t < 0

\* the loop condition of "Wait until token is available": rl.tokens <= 0
NoToken(t) == t <= 0

\* refillInterval: time.Second / time.Duration(requestsPerSecond)
refillInterval == Second \div rlRate

\* maxTokens: requestsPerSecond
maxTokens == rlRate

\* the refill block of Wait: tokensToAdd := int(elapsed / refillInterval)
TokensToAdd(now) == (now - lastRefill) \div refillInterval

RefilledTokens(now) ==
    IF TokensToAdd(now) > 0 THEN Min(maxTokens, tokens + TokensToAdd(now)) ELSE tokens

RefilledLast(now) ==
    IF TokensToAdd(now) > 0 THEN now ELSE lastRefill

\* requestHistory = append(requestHistory, now), cut to the last 100
AppendHistory(h, now) ==
    LET h2 == Append(h, now)
    IN  IF Len(h2) > HistoryCap
        THEN SubSeq(h2, Len(h2) - HistoryCap + 1, Len(h2))
        ELSE h2

\* NewRateLimiter(r)
RLInit ==
    /\ rlRate \in 1..MaxRate
    /\ tokens = rlRate
    /\ lastRefill = 0
    /\ requestHistory = <<>>
    /\ clock = 0
    /\ rlpc = [c \in SharedCallers |-> "idle"]
    /\ rlWake = [c \in SharedCallers |-> 0]
    /\ rlCalls = 0
    /\ rlCancelled = FALSE
    /\ rlResult = [c \in SharedCallers |-> "none"]
    /\ rlBlockedAtCancel = [c \in SharedCallers |-> FALSE]
    /\ rlSnap = <<0, 0>>
    /\ rlCompleted = <<>>

\* the limiter of a specification that is about another component
RLIdle ==
    /\ rlRate = 1
    /\ tokens = 1
    /\ lastRefill = 0
    /\ requestHistory = <<>>
    /\ clock = 0
    /\ rlpc = [c \in SharedCallers |-> "idle"]
    /\ rlWake = [c \in SharedCallers |-> 0]
    /\ rlCalls = 0
    /\ rlCancelled = FALSE
    /\ rlResult = [c \in SharedCallers |-> "none"]
    /\ rlBlockedAtCancel = [c \in SharedCallers |-> FALSE]
    /\ rlSnap = <<0, 0>>
    /\ rlCompleted = <<>>

\* the part of Wait shared by the entry and by each wake-up: refill, then
\* either consume a token and return nil, or release the lock and enter the
\* select, which takes `<-ctx.Done()` at once when the context is done
\* already and otherwise parks for one refill interval
WaitAttempt(c) ==
    /\ lastRefill' = RefilledLast(clock)
    /\ IF NoToken(RefilledTokens(clock))
       THEN /\ tokens' = RefilledTokens(clock)
            /\ rlpc' = [rlpc EXCEPT ![c] = IF rlCancelled THEN "ctxwake" ELSE "sleeping"]
            /\ rlWake' = [rlWake EXCEPT ![c] = clock + refillInterval]
            /\ rlResult' = [rlResult EXCEPT ![c] = "none"]
            /\ UNCHANGED <<requestHistory, rlCompleted>>
       ELSE /\ tokens' = RefilledTokens(clock) - 1
            /\ requestHistory' = AppendHistory(requestHistory, clock)
            /\ rlCompleted' = Append(rlCompleted, clock)
            /\ rlpc' = [rlpc EXCEPT ![c] = "idle"]
            /\ rlResult' = [rlResult EXCEPT ![c] = "nil"]
            /\ UNCHANGED rlWake

\* Wait(ctx) from its entry to its first return or select
WaitEnter(c) ==
    /\ rlpc[c] = "idle"
    /\ rlCalls' = rlCalls + 1
    /\ WaitAttempt(c)
    /\ rlBlockedAtCancel' = [rlBlockedAtCancel EXCEPT ![c] = FALSE]
    /\ UNCHANGED <<rlRate, clock, rlCancelled, rlSnap>>
    /\ UNCHANGED nonRL

\* a caller enters Wait
WaitCall(c) ==
    /\ rlCalls < MaxCalls
    /\ WaitEnter(c)

\* time.After(refillInterval) fired: re-lock, refill again, re-test the loop
WaitWake(c) ==
    /\ rlpc[c] = "sleeping"
    /\ clock >= rlWake[c]
    /\ WaitAttempt(c)
    /\ UNCHANGED <<rlRate, clock, rlCalls, rlCancelled, rlBlockedAtCancel, rlSnap>>
    /\ UNCHANGED nonRL

\* a select that has no `<-ctx.Done()` case
SelectTakesDoneNever(c) == FALSE

\* a parked select is woken by the first of its channels that becomes
\* ready: by ctx.Done() when the timer has not fired yet
SelectTakesDone(c) == rlpc[c] = "sleeping" /\ clock < rlWake[c]

\* cancel(): the context is done
RLCancel ==
    /\ ~rlCancelled
    /\ rlCancelled' = TRUE
    /\ rlpc' = [c \in SharedCallers |-> IF SelectTakesDone(c) THEN "ctxwake" ELSE rlpc[c]]
    /\ rlBlockedAtCancel' = [c \in SharedCallers |-> rlpc[c] = "sleeping" /\ clock < rlWake[c]]
    /\ rlSnap' = <<tokens, Len(requestHistory)>>
    /\ UNCHANGED <<rlRate, tokens, lastRefill, requestHistory, clock, rlWake, rlCalls,
                   rlResult, rlCompleted>>
    /\ UNCHANGED nonRL

\* `case <-ctx.Done()`: re-lock and return ctx.Err()
WaitCtxReturn(c) ==
    /\ rlpc[c] = "ctxwake"
    /\ rlpc' = [rlpc EXCEPT ![c] = "idle"]
    /\ rlResult' = [rlResult EXCEPT ![c] = "ctxerr"]
    /\ UNCHANGED <<rlRate, tokens, lastRefill, requestHistory, clock, rlWake, rlCalls,
                   rlCancelled, rlBlockedAtCancel, rlSnap, rlCompleted>>
    /\ UNCHANGED nonRL

\* time passes
Tick ==
    /\ clock < MaxTime
    /\ clock' = clock + 1
    /\ UNCHANGED <<rlRate, tokens, lastRefill, requestHistory, rlpc, rlWake, rlCalls,
                   rlCancelled, rlResult, rlBlockedAtCancel, rlSnap, rlCompleted>>
    /\ UNCHANGED nonRL

\* time.Minute, in clock ticks
Minute == 60 * Second

\* number of Wait calls a caller issues back to back
MaxBusyCalls == 101

\* a caller that asks for the next token as soon as it has one (a crawl
\* worker between two requests)
BusyWaitCall(c) ==
    /\ rlCalls < MaxBusyCalls
    /\ WaitEnter(c)

\* the caller is parked and nothing else runs: time passes until its
\* time.After channel fires
SleepThrough(c) ==
    /\ rlpc[c] = "sleeping"
    /\ clock < rlWake[c]
    /\ clock' = rlWake[c]
    /\ UNCHANGED <<rlRate, tokens, lastRefill, requestHistory, rlpc, rlWake, rlCalls,
                   rlCancelled, rlResult, rlBlockedAtCancel, rlSnap, rlCompleted>>
    /\ UNCHANGED nonRL

\* GetStats() at time now: the entries of requestHistory after now - 1 min
\* and after now - 1 s
GetStats(now) ==
    <<Cardinality({i \in 1..Len(requestHistory) : requestHistory[i] > now - Minute}),
      Cardinality({i \in 1..Len(requestHistory) : requestHistory[i] > now - Second})>>

(***************************************************************************)
(* Client: getNextAPIKey, doRequest, recordFailure                         *)
(***************************************************************************)
\* largest number of configured keys
MaxKeys == 2

\* c.maxRetries
MaxRetries == 1

\* number of doRequest calls started
MaxRequests == 2

\* the value of an integer Retry-After header drawn for a 429
RetryAfterSecs == 7

Reqs == {1, 2}

Keys == 0..(numKeys - 1)

RECURSIVE Pow2(_)
\* math.Pow(2, n) for n >= 0
Pow2(n) == IF n <= 0 THEN 1 ELSE 2 * Pow2(n - 1)

\* outcomes of one httpClient.Do: a transport error or a status code
Outcomes == {"neterr", "200", "200baddecode", "404", "429", "500", "400"}

\* the Retry-After header of a 429: absent, an integer, or not an integer
RetryAfters == {"", "int", "junk"}

NoErr == "nil"

\* a counter that is read but never advanced
NextKeyIndexNoAdd == keyIndex

\* atomic.AddUint64(&c.keyIndex, 1); the uint64 wraps only after 2^64 calls,
\* which no run of at most MaxRequests * (MaxRetries + 1) attempts reaches
NextKeyIndex == keyIndex + 1

\* the key getNextAPIKey returns
NextKey ==
    IF numKeys = 1 THEN 0 ELSE NextKeyIndex % numKeys

\* getNextAPIKey: its effect on keyIndex and on the key's TotalRequests
GetNextAPIKey ==
    /\ keyIndex' = IF numKeys = 1 THEN keyIndex ELSE NextKeyIndex
    /\ keyTotal' = IF numKeys = 1 THEN keyTotal
                   ELSE [keyTotal EXCEPT ![NextKey] = @ + 1]
    /\ selCount' = [selCount EXCEPT ![NextKey] = @ + 1]
    /\ lastSel' = NextKey

\* recordFailure(apiKey)
RecordFailure(key) == [keyFailed EXCEPT ![key] = @ + 1]

\* a 404 handled like a server error: slept on and retried
ClassifyRetry404(outcome, att) ==
    CASE outcome = "neterr"       -> "continue"
      [] outcome = "200"          -> "ok"
      [] outcome = "200baddecode" -> "decodeerr"
      [] outcome = "429"          -> IF numKeys > 1 /\ att < MaxRetries
                                     THEN "rotate" ELSE "sleep429"
      [] outcome \in {"404", "500"} -> "sleep5xx"
      [] OTHER                    -> "apierr"

\* a 429 that rotates to the next key on the last attempt as well
ClassifyRotateAlways(outcome, att) ==
    CASE outcome = "neterr"       -> "continue"
      [] outcome = "200"          -> "ok"
      [] outcome = "200baddecode" -> "decodeerr"
      [] outcome = "404"          -> "notfound"
      [] outcome = "429"          -> IF numKeys > 1 THEN "rotate" ELSE "sleep429"
      [] outcome = "500"          -> "sleep5xx"
      [] OTHER                    -> "apierr"

\* how doRequest goes on after the outcome of an attempt:
\*   "ok" / "decodeerr" / "notfound" / "apierr": return at once
\*   "continue": record and start the next attempt at once
\*   "rotate":   429 with several keys and retries left, next attempt at once
\*   "sleep429" / "sleep5xx": sleep waitTime, then the next attempt
Classify(outcome, att) ==
    CASE outcome = "neterr"       -> "continue"
      [] outcome = "200"          -> "ok"
      [] outcome = "200baddecode" -> "decodeerr"
      [] outcome = "404"          -> "notfound"
      [] outcome = "429"          -> IF numKeys > 1 /\ att < MaxRetries
                                     THEN "rotate" ELSE "sleep429"
      [] outcome = "500"          -> "sleep5xx"
      [] OTHER                    -> "apierr"

\* the lastErr doRequest keeps for a retriable outcome
ErrOf(outcome) ==
    CASE outcome = "neterr" -> "neterr"
      [] outcome = "429"    -> "ratelimited"
      [] outcome = "500"    -> "servererr"
      [] OTHER              -> NoErr

\* a 429 whose Retry-After header is not read
WaitTime429NoHeader(retryAfter, att) == Pow2(att)

\* waitTime of a 429: Retry-After when it parses as an integer, else 2^attempt
WaitTime429(retryAfter, att) ==
    IF retryAfter = "int" THEN RetryAfterSecs ELSE Pow2(att)

\* NewClient
ClientInit ==
    /\ numKeys \in 1..MaxKeys
    /\ keyIndex = 0
    /\ keyTotal = [k \in 0..(MaxKeys - 1) |-> 0]
    /\ keyFailed = [k \in 0..(MaxKeys - 1) |-> 0]
    /\ ctxDone = FALSE
    /\ rqpc = [r \in Reqs |-> "idle"]
    /\ attempt = [r \in Reqs |-> 0]
    /\ currentKey = [r \in Reqs |-> 0]
    /\ lastErr = [r \in Reqs |-> NoErr]
    /\ waitTime = [r \in Reqs |-> 0]
    /\ result = [r \in Reqs |-> "none"]
    /\ reqStarted = 0
    /\ selCount = [k \in 0..(MaxKeys - 1) |-> 0]
    /\ lastSel = -1
    /\ sent = [r \in Reqs |-> 0]
    /\ nf = [r \in Reqs |-> FALSE]
    /\ afterNF = [r \in Reqs |-> 0]
    /\ lastOutcome = [r \in Reqs |-> "none"]
    /\ lastRetryAfter = [r \in Reqs |-> ""]

\* the client of a specification that is about another component
ClientIdle ==
    /\ numKeys = 1
    /\ keyIndex = 0
    /\ keyTotal = [k \in 0..(MaxKeys - 1) |-> 0]
    /\ keyFailed = [k \in 0..(MaxKeys - 1) |-> 0]
    /\ ctxDone = FALSE
    /\ rqpc = [r \in Reqs |-> "idle"]
    /\ attempt = [r \in Reqs |-> 0]
    /\ currentKey = [r \in Reqs |-> 0]
    /\ lastErr = [r \in Reqs |-> NoErr]
    /\ waitTime = [r \in Reqs |-> 0]
    /\ result = [r \in Reqs |-> "none"]
    /\ reqStarted = 0
    /\ selCount = [k \in 0..(MaxKeys - 1) |-> 0]
    /\ lastSel = -1
    /\ sent = [r \in Reqs |-> 0]
    /\ nf = [r \in Reqs |-> FALSE]
    /\ afterNF = [r \in Reqs |-> 0]
    /\ lastOutcome = [r \in Reqs |-> "none"]
    /\ lastRetryAfter = [r \in Reqs |-> ""]

\* doRequest returns v
Return(r, v) ==
    /\ rqpc' = [rqpc EXCEPT ![r] = "done"]
    /\ result' = [result EXCEPT ![r] = v]

\* `continue`: attempt++ and back to the loop head
Continue(r) ==
    /\ rqpc' = [rqpc EXCEPT ![r] = "loop"]
    /\ attempt' = [attempt EXCEPT ![r] = @ + 1]

\* a caller (FetchCharityDetails, SearchByName, ...) enters doRequest
DoRequestCall(r) ==
    /\ rqpc[r] \in {"idle", "done"}
    /\ reqStarted < MaxRequests
    /\ reqStarted' = reqStarted + 1
    /\ rqpc' = [rqpc EXCEPT ![r] = "loop"]
    /\ attempt' = [attempt EXCEPT ![r] = 0]
    /\ lastErr' = [lastErr EXCEPT ![r] = NoErr]
    /\ result' = [result EXCEPT ![r] = "none"]
    /\ sent' = [sent EXCEPT ![r] = 0]
    /\ nf' = [nf EXCEPT ![r] = FALSE]
    /\ afterNF' = [afterNF EXCEPT ![r] = 0]
    /\ lastOutcome' = [lastOutcome EXCEPT ![r] = "none"]
    /\ lastRetryAfter' = [lastRetryAfter EXCEPT ![r] = ""]
    /\ waitTime' = [waitTime EXCEPT ![r] = 0]
    /\ UNCHANGED <<numKeys, keyIndex, keyTotal, keyFailed, ctxDone, currentKey,
                   selCount, lastSel>>
    /\ UNCHANGED nonClient

\* the loop head: attempt <= c.maxRetries, then currentKey = c.getNextAPIKey();
\* past the last attempt: "max retries exceeded: %w", lastErr
LoopHead(r) ==
    /\ rqpc[r] = "loop"
    /\ IF attempt[r] <= MaxRetries
       THEN /\ GetNextAPIKey
            /\ currentKey' = [currentKey EXCEPT ![r] = NextKey]
            /\ rqpc' = [rqpc EXCEPT ![r] = "wait"]
            /\ UNCHANGED result
       ELSE /\ Return(r, "maxretries")
            /\ UNCHANGED <<keyIndex, keyTotal, selCount, lastSel, currentKey>>
    /\ UNCHANGED <<numKeys, keyFailed, ctxDone, attempt, lastErr, waitTime, reqStarted,
                   sent, nf, afterNF>>
    /\ UNCHANGED <<lastOutcome, lastRetryAfter>>
    /\ UNCHANGED nonClient

\* c.rateLimiter.Wait(ctx) returned nil
LimiterWaitOk(r) ==
    /\ rqpc[r] = "wait"
    /\ rqpc' = [rqpc EXCEPT ![r] = IF attempt[r] > 0 THEN "backoff" ELSE "send"]
    /\ waitTime' = [waitTime EXCEPT ![r] = IF attempt[r] > 0 THEN Pow2(attempt[r] - 1) ELSE 0]
    /\ UNCHANGED <<numKeys, keyIndex, keyTotal, keyFailed, ctxDone, attempt, currentKey,
                   lastErr, result, reqStarted, selCount, lastSel, sent, nf, afterNF>>
    /\ UNCHANGED <<lastOutcome, lastRetryAfter>>
    /\ UNCHANGED nonClient

\* a select on ctx.Done() fired (in Wait, in the backoff or in a sleep):
\* doRequest returns the context's error
CtxReturn(r) ==
    /\ rqpc[r] \in {"wait", "backoff", "sleep"}
    /\ ctxDone
    /\ Return(r, "ctxerr")
    /\ UNCHANGED <<numKeys, keyIndex, keyTotal, keyFailed, ctxDone, attempt, currentKey,
                   lastErr, waitTime, reqStarted, selCount, lastSel, sent, nf, afterNF>>
    /\ UNCHANGED <<lastOutcome, lastRetryAfter>>
    /\ UNCHANGED nonClient

\* the backoff before a retry, 2^(attempt-1) seconds, ran to its end
BackoffDone(r) ==
    /\ rqpc[r] = "backoff"
    /\ ~ctxDone
    /\ rqpc' = [rqpc EXCEPT ![r] = "send"]
    /\ afterNF' = [afterNF EXCEPT ![r] = IF nf[r] THEN @ + 1 ELSE @]
    /\ UNCHANGED <<numKeys, keyIndex, keyTotal, keyFailed, ctxDone, attempt, currentKey,
                   lastErr, waitTime, result, reqStarted, selCount, lastSel, sent, nf>>
    /\ UNCHANGED <<lastOutcome, lastRetryAfter>>
    /\ UNCHANGED nonClient

\* c.httpClient.Do(req) and the handling of its outcome
Send(r, outcome, retryAfter) ==
    /\ rqpc[r] = "send"
    /\ sent' = [sent EXCEPT ![r] = @ + 1]
    /\ afterNF' = [afterNF EXCEPT ![r] = IF nf[r] THEN @ + 1 ELSE @]
    /\ nf' = [nf EXCEPT ![r] = @ \/ outcome = "404"]
    /\ lastOutcome' = [lastOutcome EXCEPT ![r] = outcome]
    /\ lastRetryAfter' = [lastRetryAfter EXCEPT
                             ![r] = IF Classify(outcome, attempt[r]) = "sleep429"
                                       /\ retryAfter = "int"
                                    THEN "int" ELSE ""]
    /\ LET how == Classify(outcome, attempt[r])
       IN  /\ keyFailed' = IF how \in {"continue", "rotate", "sleep429", "sleep5xx", "apierr"}
                           THEN RecordFailure(currentKey[r]) ELSE keyFailed
           /\ CASE how \in {"ok", "decodeerr", "notfound", "apierr"} ->
                     /\ Return(r, how)
                     /\ UNCHANGED <<attempt, lastErr, waitTime>>
                [] how = "continue" ->
                     /\ Continue(r)
                     /\ lastErr' = [lastErr EXCEPT ![r] = "neterr"]
                     /\ UNCHANGED <<result, waitTime>>
                [] how = "rotate" ->
                     /\ Continue(r)
                     /\ UNCHANGED <<result, lastErr, waitTime>>
                [] how = "sleep429" ->
                     /\ rqpc' = [rqpc EXCEPT ![r] = "sleep"]
                     /\ waitTime' = [waitTime EXCEPT ![r] = WaitTime429(retryAfter, attempt[r])]
                     /\ lastErr' = [lastErr EXCEPT ![r] = "pending429"]
                     /\ UNCHANGED <<result, attempt>>
                [] how = "sleep5xx" ->
                     /\ rqpc' = [rqpc EXCEPT ![r] = "sleep"]
                     /\ waitTime' = [waitTime EXCEPT ![r] = Pow2(attempt[r])]
                     /\ lastErr' = [lastErr EXCEPT ![r] = "pending5xx"]
                     /\ UNCHANGED <<result, attempt>>
    /\ UNCHANGED <<numKeys, keyIndex, keyTotal, ctxDone, currentKey, reqStarted,
                   selCount, lastSel>>
    /\ UNCHANGED nonClient

\* the sleep after a 429 or a 5xx ran to its end: lastErr is set, `continue`
SleepDone(r) ==
    /\ rqpc[r] = "sleep"
    /\ ~ctxDone
    /\ Continue(r)
    /\ lastErr' = [lastErr EXCEPT ![r] = IF @ = "pending429" THEN "ratelimited" ELSE "servererr"]
    /\ afterNF' = [afterNF EXCEPT ![r] = IF nf[r] THEN @ + 1 ELSE @]
    /\ lastRetryAfter' = [lastRetryAfter EXCEPT ![r] = ""]
    /\ UNCHANGED <<numKeys, keyIndex, keyTotal, keyFailed, ctxDone, currentKey, waitTime,
                   result, reqStarted, selCount, lastSel, sent, nf>>
    /\ UNCHANGED lastOutcome
    /\ UNCHANGED nonClient

\* the context is cancelled
CtxCancel ==
    /\ ~ctxDone
    /\ ctxDone' = TRUE
    /\ UNCHANGED <<numKeys, keyIndex, keyTotal, keyFailed, rqpc, attempt, currentKey,
                   lastErr, waitTime, result, reqStarted, selCount, lastSel, sent, nf, afterNF>>
    /\ UNCHANGED <<lastOutcome, lastRetryAfter>>
    /\ UNCHANGED nonClient

(***************************************************************************)
(* The relational store: tables, keys, INSERT OR REPLACE                   *)
(***************************************************************************)
\* registration numbers written by the single-organization writers
Regs == {5}

\* trustee lists of a fetched organization
NameLists == {<<>>, <<"a">>, <<"a", "b">>}

\* the three tables a single-organization write touches, as one value
DB == [c |-> charities, f |-> financials, t |-> trustees]

\* the freshly migrated database
DBEmpty ==
    /\ charities = {}
    /\ financials = {}
    /\ trustees = {}
    /\ history = {}
    /\ histSeq = 0
    /\ dbNow = 0

\* the rowid SQLite assigns when organisation_number (INTEGER PRIMARY KEY) is
\* not given: one more than the largest in the table
AutoOrg(tbl) ==
    IF tbl = {} THEN 1
    ELSE (CHOOSE m \in {r.org : r \in tbl} : \A r \in tbl : r.org <= m) + 1

\* INSERT OR REPLACE INTO charities: the only key is organisation_number
\* (registered_number and linked_charity_number carry plain indexes)
InsertOrReplaceCharity(tbl, row) ==
    {r \in tbl : r.org # row.org} \cup {row}

\* INSERT OR IGNORE: the row that is there stays
InsertOrIgnoreFinancial(tbl, row) ==
    IF \E r \in tbl : r.charity = row.charity /\ r.fye = row.fye THEN tbl
    ELSE tbl \cup {row}

\* INSERT OR REPLACE INTO financials: PRIMARY KEY (charity_number, financial_year_end)
InsertOrReplaceFinancial(tbl, row) ==
    {r \in tbl : ~(r.charity = row.charity /\ r.fye = row.fye)} \cup {row}

\* INSERT OR REPLACE INTO trustees: PRIMARY KEY (charity_number, name)
InsertOrReplaceTrustee(tbl, row) ==
    {r \in tbl : ~(r.charity = row.charity /\ r.name = row.name)} \cup {row}

(***************************************************************************)
(* Scraper.storeCharity and sync.FetchAndStoreCharity                      *)
(***************************************************************************)
\* number of store operations started
MaxOps == 2

StoreProcs == {1, 2}

\* what one FetchCharityDetails answer parses to: the registration number,
\* whether income or spending is positive, the financial year end, trustees
FetchedData == [reg : Regs, fin : BOOLEAN, fye : {1}, names : NameLists]

NoData == [reg |-> 0, fin |-> FALSE, fye |-> 0, names |-> <<>>, now |-> 0]

RECURSIVE TrusteeStmts(_)
TrusteeStmts(names) ==
    IF names = <<>> THEN <<>>
    ELSE <<[t |-> "trustee", name |-> Head(names)]>> \o TrusteeStmts(Tail(names))

\* the statements storeCharity executes, in order: the charity, the financial
\* row when income or spending is positive, one statement per trustee
StoreStmts(d) ==
    <<[t |-> "charity", name |-> ""]>>
    \o (IF d.fin THEN <<[t |-> "fin", name |-> ""]>> ELSE <<>>)
    \o TrusteeStmts(d.names)

\* the statements FetchAndStoreCharity executes: the financial row always
SyncStmts(d) ==
    <<[t |-> "charity", name |-> ""], [t |-> "fin", name |-> ""]>>
    \o TrusteeStmts(d.names)

\* one INSERT OR REPLACE of a single-organization writer; neither writer
\* gives organisation_number or linked_charity_number
ExecStmt(db, s, d) ==
    CASE s.t = "charity" ->
            [db EXCEPT !.c = InsertOrReplaceCharity(@,
                [org |-> AutoOrg(@), reg |-> d.reg, linked |-> 0, v |-> 1,
                 last_updated |-> d.now])]
      [] s.t = "fin" ->
            [db EXCEPT !.f = InsertOrReplaceFinancial(@,
                [charity |-> d.reg, fye |-> d.fye, v |-> 1, last_updated |-> d.now])]
      [] OTHER ->
            [db EXCEPT !.t = InsertOrReplaceTrustee(@,
                [charity |-> d.reg, name |-> s.name, last_updated |-> d.now])]

RECURSIVE ExecStmts(_, _, _, _)
\* the first n statements of stmts, executed in order
ExecStmts(db, stmts, n, d) ==
    IF n = 0 THEN db
    ELSE ExecStmt(ExecStmts(db, stmts, n - 1, d), stmts[n], d)

\* executed statements stay behind when the transaction is abandoned
RolledBackKeepsWrites(db, d, n) == ExecStmts(db, StoreStmts(d), n, d)

\* tx.Rollback() (deferred, or implied by the death of the process) after n
\* statements were executed on tx: the store is as before tx.Begin()
RolledBackStore(db, d, n) == db

\* tx.Commit(): every statement of the transaction becomes visible at once
CommittedStore(db, d) == ExecStmts(db, StoreStmts(d), Len(StoreStmts(d)), d)

SetDB(db) ==
    /\ charities' = db.c
    /\ financials' = db.f
    /\ trustees' = db.t

StoreIdle ==
    /\ stpc = [p \in StoreProcs |-> "idle"]
    /\ stData = [p \in StoreProcs |-> NoData]
    /\ stExec = [p \in StoreProcs |-> 0]
    /\ stResult = [p \in StoreProcs |-> "none"]
    /\ stOps = 0

\* a new operation of process p starts: time.Now() for its rows
StartOp(p, d) ==
    /\ stpc[p] = "idle"
    /\ stOps < MaxOps
    /\ stOps' = stOps + 1
    /\ dbNow' = dbNow + 1
    /\ stData' = [stData EXCEPT ![p] = [reg |-> d.reg, fin |-> d.fin, fye |-> d.fye,
                                        names |-> d.names, now |-> dbNow + 1]]

EndOp(p, res) ==
    /\ stpc' = [stpc EXCEPT ![p] = "idle"]
    /\ stResult' = [stResult EXCEPT ![p] = res]

\* storeCharity is entered: s.db.Begin()
StoreCharityCall(p, d, beginOk) ==
    /\ StartOp(p, d)
    /\ stExec' = [stExec EXCEPT ![p] = 0]
    /\ IF beginOk
       THEN /\ stpc' = [stpc EXCEPT ![p] = "tx"]
            /\ stResult' = [stResult EXCEPT ![p] = "none"]
       ELSE EndOp(p, "err")
    /\ UNCHANGED <<charities, financials, trustees, history, histSeq>>
    /\ UNCHANGED nonStore

\* the next tx.Exec of storeCharity; on an error the function returns and
\* the deferred Rollback runs
StoreCharityExec(p, ok) ==
    /\ stpc[p] = "tx"
    /\ stExec[p] < Len(StoreStmts(stData[p]))
    /\ IF ok
       THEN /\ stExec' = [stExec EXCEPT ![p] = @ + 1]
            /\ UNCHANGED <<charities, financials, trustees, stpc, stResult>>
       ELSE /\ SetDB(RolledBackStore(DB, stData[p], stExec[p]))
            /\ EndOp(p, "err")
            /\ UNCHANGED stExec
    /\ UNCHANGED <<history, histSeq, dbNow, stData, stOps>>
    /\ UNCHANGED nonStore

\* tx.Commit() of storeCharity
StoreCharityCommit(p, ok) ==
    /\ stpc[p] = "tx"
    /\ stExec[p] = Len(StoreStmts(stData[p]))
    /\ IF ok
       THEN /\ SetDB(CommittedStore(DB, stData[p]))
            /\ EndOp(p, "ok")
       ELSE /\ SetDB(RolledBackStore(DB, stData[p], stExec[p]))
            /\ EndOp(p, "err")
    /\ UNCHANGED <<history, histSeq, dbNow, stData, stExec, stOps>>
    /\ UNCHANGED nonStore

\* FetchAndStoreCharity up to and including the charities insert, which runs
\* on db directly; an error of that insert is returned
FetchAndStoreCall(p, d, ok) ==
    /\ StartOp(p, d)
    /\ IF ok
       THEN /\ SetDB(ExecStmt(DB, SyncStmts(d)[1], stData'[p]))
            /\ stpc' = [stpc EXCEPT ![p] = "fs"]
            /\ stResult' = [stResult EXCEPT ![p] = "none"]
            /\ stExec' = [stExec EXCEPT ![p] = 1]
       ELSE /\ EndOp(p, "err")
            /\ stExec' = [stExec EXCEPT ![p] = 0]
            /\ UNCHANGED <<charities, financials, trustees>>
    /\ UNCHANGED <<history, histSeq>>
    /\ UNCHANGED nonStore

\* the next db.Exec of FetchAndStoreCharity (financial row, then trustees):
\* an error is logged only; after the last one the function returns nil
FetchAndStoreExec(p, ok) ==
    /\ stpc[p] = "fs"
    /\ LET stmts == SyncStmts(stData[p])
           n == stExec[p] + 1
       IN  /\ n <= Len(stmts)
           /\ IF ok THEN SetDB(ExecStmt(DB, stmts[n], stData[p]))
                    ELSE UNCHANGED <<charities, financials, trustees>>
           /\ stExec' = [stExec EXCEPT ![p] = n]
           /\ IF n = Len(stmts)
              THEN EndOp(p, "ok")
              ELSE UNCHANGED <<stpc, stResult>>
    /\ UNCHANGED <<history, histSeq, dbNow, stData, stOps>>
    /\ UNCHANGED nonStore

RECURSIVE CrashStore(_, _)
\* the store after the process died: no open transaction was committed
CrashStore(db, procs) ==
    IF procs = {} THEN db
    ELSE LET p == CHOOSE q \in procs : TRUE
         IN  CrashStore(IF stpc[p] = "tx"
                        THEN RolledBackStore(db, stData[p], stExec[p])
                        ELSE db,
                        procs \ {p})

\* the process is killed while some operation is in progress
Crash ==
    /\ \E p \in StoreProcs : stpc[p] # "idle"
    /\ SetDB(CrashStore(DB, StoreProcs))
    /\ stpc' = [p \in StoreProcs |-> "idle"]
    /\ stResult' = [p \in StoreProcs |-> IF stpc[p] # "idle" THEN "crashed" ELSE stResult[p]]
    /\ UNCHANGED <<history, histSeq, dbNow, stData, stExec, stOps>>
    /\ UNCHANGED nonStore

(***************************************************************************)
(* The crawler: runAPIScrape, Scraper.scrape, Scraper.worker               *)
(***************************************************************************)
\* config.StartCharity and config.EndCharity of every run
StartCharity == 99

EndCharity == 101

\* largest config.Concurrency drawn
MaxWorkers == 2

\* number of runs started
MaxRuns == 2

\* "Save progress every N charities"
checkpointInterval == 100

Ids == StartCharity..EndCharity

Workers == 1..MaxWorkers

\* the -resume argument: absent (0), or an identifier of the range
Resumes == {0, StartCharity + 1}

\* the starting point ignores the persisted checkpoint
StartPointNoCheckpoint(resume, ckpt) ==
    IF resume > 0 THEN resume ELSE StartCharity

\* runAPIScrape, "Determine starting point": the resume argument, else the
\* checkpoint when it lies within the requested range, else the range start
StartPoint(resume, ckpt) ==
    IF resume > 0 THEN resume
    ELSE IF ckpt > 0 /\ ckpt >= StartCharity /\ ckpt <= EndCharity THEN ckpt
    ELSE StartCharity

\* a feeder loop that stops one identifier early
FeedMoreExclusive(n) == n < EndCharity

\* the feeder's loop condition: charityNum <= s.config.EndCharity
FeedMore(n) == n <= EndCharity

\* make(chan int, s.config.Concurrency*2)
QueueCap == cfgW * 2

\* what the crawler stores for identifier id
CrawlData(id) ==
    [reg |-> id, fin |-> TRUE, fye |-> 1, names |-> <<"a">>, now |-> dbNow + 1]

\* processCharity's first query: SELECT 1 FROM charities WHERE registered_number = ?
Exists(id) == \E r \in charities : r.reg = id

\* what processCharity can come to for an identifier that is not stored yet
ProcessOutcomes == {"notfound", "fetcherr", "storeerr", "stored"}

CrawlIdle ==
    /\ cfgW = 0
    /\ cfgResume = 0
    /\ checkpoint = 0
    /\ crpc = "off"
    /\ runs = 0
    /\ runStart = 0
    /\ runCkpt = 0
    /\ currentCharity = 0
    /\ feedpc = "off"
    /\ feedNum = 0
    /\ queue = <<>>
    /\ qClosed = FALSE
    /\ cancelled = FALSE
    /\ wpc = [w \in Workers |-> "off"]
    /\ witem = [w \in Workers |-> 0]
    /\ totalProcessed = 0
    /\ successful = 0
    /\ failed = 0
    /\ skipped = 0
    /\ recvCount = [i \in Ids |-> 0]
    /\ firstDispatched = 0

\* runAPIScrape up to wg.Wait(): a new process, the starting point, the
\* Scraper with fresh Stats, W workers and the feeder
RunStart(w, resume) ==
    /\ crpc \in {"off", "done"}
    /\ runs < MaxRuns
    /\ runs' = runs + 1
    /\ cfgW' = w
    /\ cfgResume' = resume
    /\ runCkpt' = checkpoint
    /\ runStart' = StartPoint(resume, checkpoint)
    /\ currentCharity' = StartPoint(resume, checkpoint)
    /\ feedNum' = StartPoint(resume, checkpoint)
    /\ feedpc' = "loop"
    /\ queue' = <<>>
    /\ qClosed' = FALSE
    /\ cancelled' = FALSE
    /\ wpc' = [x \in Workers |-> IF x <= w THEN "recv" ELSE "off"]
    /\ witem' = [x \in Workers |-> 0]
    /\ totalProcessed' = 0
    /\ successful' = 0
    /\ failed' = 0
    /\ skipped' = 0
    /\ recvCount' = [i \in Ids |-> 0]
    /\ firstDispatched' = 0
    /\ crpc' = "wait"
    /\ UNCHANGED checkpoint
    /\ UNCHANGED dbVars
    /\ UNCHANGED nonCrawl

\* the feeder's select took `workQueue <- charityNum`
FeederSend ==
    /\ crpc \in {"wait", "done"}
    /\ feedpc = "loop"
    /\ FeedMore(feedNum)
    /\ Len(queue) < QueueCap
    /\ queue' = Append(queue, feedNum)
    /\ firstDispatched' = IF firstDispatched = 0 THEN feedNum ELSE firstDispatched
    /\ feedpc' = "sent"
    /\ UNCHANGED <<cfgW, cfgResume, checkpoint, crpc, runs, runStart, runCkpt, currentCharity,
                   feedNum, qClosed, cancelled, wpc, witem, totalProcessed, successful,
                   failed, skipped, recvCount>>
    /\ UNCHANGED dbVars
    /\ UNCHANGED nonCrawl

\* after the send: CurrentCharity = charityNum under the lock, the periodic
\* checkpoint, charityNum++
FeederRecord ==
    /\ crpc \in {"wait", "done"}
    /\ feedpc = "sent"
    /\ currentCharity' = feedNum
    /\ checkpoint' = IF feedNum % checkpointInterval = 0 THEN feedNum ELSE checkpoint
    /\ feedNum' = feedNum + 1
    /\ feedpc' = "loop"
    /\ UNCHANGED <<cfgW, cfgResume, crpc, runs, runStart, runCkpt, queue, qClosed, cancelled,
                   wpc, witem, totalProcessed, successful, failed, skipped, recvCount,
                   firstDispatched>>
    /\ UNCHANGED dbVars
    /\ UNCHANGED nonCrawl

\* a feeder whose select has no `<-s.ctx.Done()` case
FeederStopsAtEndOnly == ~FeedMore(feedNum)

\* the feeder's loop is over, or its select can take `<-s.ctx.Done()`
FeederStops == ~FeedMore(feedNum) \/ cancelled

\* the feeder returns and the deferred close(workQueue) runs
FeederClose ==
    /\ crpc \in {"wait", "done"}
    /\ feedpc = "loop"
    /\ FeederStops
    /\ feedpc' = "closed"
    /\ qClosed' = TRUE
    /\ UNCHANGED <<cfgW, cfgResume, checkpoint, crpc, runs, runStart, runCkpt, currentCharity,
                   feedNum, queue, cancelled, wpc, witem, totalProcessed, successful,
                   failed, skipped, recvCount, firstDispatched>>
    /\ UNCHANGED dbVars
    /\ UNCHANGED nonCrawl

\* `for charityNum := range workQueue` receives an identifier
WorkerReceive(w) ==
    /\ crpc = "wait"
    /\ wpc[w] = "recv"
    /\ queue # <<>>
    /\ witem' = [witem EXCEPT ![w] = Head(queue)]
    /\ queue' = Tail(queue)
    /\ recvCount' = [recvCount EXCEPT ![Head(queue)] = @ + 1]
    /\ wpc' = [wpc EXCEPT ![w] = "got"]
    /\ UNCHANGED <<cfgW, cfgResume, checkpoint, crpc, runs, runStart, runCkpt, currentCharity,
                   feedpc, feedNum, qClosed, cancelled, totalProcessed, successful, failed,
                   skipped, firstDispatched>>
    /\ UNCHANGED dbVars
    /\ UNCHANGED nonCrawl

\* the worker leaves: the range loop ends on the closed, drained queue, or
\* the select after a receive finds s.ctx done
WorkerExit(w) ==
    /\ crpc = "wait"
    /\ \/ wpc[w] = "recv" /\ queue = <<>> /\ qClosed
       \/ wpc[w] = "got" /\ cancelled
    /\ wpc' = [wpc EXCEPT ![w] = "exit"]
    /\ UNCHANGED <<cfgW, cfgResume, checkpoint, crpc, runs, runStart, runCkpt, currentCharity,
                   feedpc, feedNum, queue, qClosed, cancelled, witem, totalProcessed,
                   successful, failed, skipped, recvCount, firstDispatched>>
    /\ UNCHANGED dbVars
    /\ UNCHANGED nonCrawl

\* processCharity(charityNum) returns and the worker loop counts the item.
\* A worker that holds an item is either at the select that follows the
\* receive or past it, inside processCharity (possibly blocked on the rate
\* limiter, in a backoff sleep or on the network): after a cancellation the
\* first leaves by WorkerExit, the second finishes the item here, its
\* blocking waits returning the context's error, a fetch error
WorkerProcess(w, outcome) ==
    /\ crpc = "wait"
    /\ wpc[w] = "got"
    /\ LET id == witem[w]
           how == IF Exists(id) THEN "exists" ELSE outcome
           err == how \in {"fetcherr", "storeerr"}
       IN  /\ skipped' = IF how \in {"exists", "notfound"} THEN skipped + 1 ELSE skipped
           /\ failed' = IF err THEN failed + 1 ELSE failed
           /\ successful' = IF err THEN successful ELSE successful + 1
           /\ IF how = "stored"
              THEN /\ SetDB(CommittedStore(DB, CrawlData(id)))
                   /\ dbNow' = dbNow + 1
              ELSE /\ SetDB(IF how = "storeerr"
                            THEN RolledBackStore(DB, CrawlData(id), 0)
                            ELSE DB)
                   /\ UNCHANGED dbNow
    /\ totalProcessed' = totalProcessed + 1
    /\ wpc' = [wpc EXCEPT ![w] = "recv"]
    /\ UNCHANGED <<cfgW, cfgResume, checkpoint, crpc, runs, runStart, runCkpt, currentCharity,
                   feedpc, feedNum, queue, qClosed, cancelled, witem, recvCount,
                   firstDispatched>>
    /\ UNCHANGED <<history, histSeq>>
    /\ UNCHANGED nonCrawl

\* the signal handler calls cancel()
Cancel ==
    /\ crpc = "wait"
    /\ ~cancelled
    /\ cancelled' = TRUE
    /\ UNCHANGED <<cfgW, cfgResume, checkpoint, crpc, runs, runStart, runCkpt, currentCharity,
                   feedpc, feedNum, queue, qClosed, wpc, witem, totalProcessed, successful,
                   failed, skipped, recvCount, firstDispatched>>
    /\ UNCHANGED dbVars
    /\ UNCHANGED nonCrawl

\* a wait that ends as soon as one worker has left
WgWaitReturnsEarly ==
    \/ cfgW = 0
    \/ \E w \in Workers : wpc[w] = "exit"

\* the source lines that touch s.stats between s.stats.mu.Lock() and
\* Unlock(): the feeder's write of CurrentCharity, the workers' increments,
\* printFinalStats; the reads at 468, 489 and 515 are made without the lock
LockedStatsLines == {495, 536, 540, 545, 559, 570} \cup (641..649)

\* the feeder goroutine has not returned: it can still write CurrentCharity
FeederRunning == feedpc \in {"loop", "sent"}

\* wg.Wait() returns: every worker that was started has left
WgWaitReturns == \A w \in Workers : wpc[w] \in {"off", "exit"}

\* wg.Wait() returned: the final checkpoint, read from s.stats.CurrentCharity
\* without the lock, and the statistics
MainFinish ==
    /\ crpc = "wait"
    /\ WgWaitReturns
    /\ checkpoint' = currentCharity
    /\ crpc' = "done"
    /\ UNCHANGED <<cfgW, cfgResume, runs, runStart, runCkpt, currentCharity, feedpc, feedNum,
                   queue, qClosed, cancelled, wpc, witem, totalProcessed, successful, failed,
                   skipped, recvCount, firstDispatched>>
    /\ UNCHANGED dbVars
    /\ UNCHANGED nonCrawl

\* the process is killed during a run: nothing but the store survives
Kill ==
    /\ crpc = "wait"
    /\ crpc' = "off"
    /\ feedpc' = "off"
    /\ wpc' = [w \in Workers |-> "off"]
    /\ queue' = <<>>
    /\ qClosed' = FALSE
    /\ cancelled' = FALSE
    /\ witem' = [w \in Workers |-> 0]
    /\ cfgW' = 0
    /\ cfgResume' = 0
    /\ runStart' = 0
    /\ runCkpt' = 0
    /\ currentCharity' = 0
    /\ feedNum' = 0
    /\ totalProcessed' = 0
    /\ successful' = 0
    /\ failed' = 0
    /\ skipped' = 0
    /\ recvCount' = [i \in Ids |-> 0]
    /\ firstDispatched' = 0
    /\ UNCHANGED <<checkpoint, runs>>
    /\ UNCHANGED dbVars
    /\ UNCHANGED nonCrawl

(***************************************************************************)
(* The stream importer: import*FromReader, insert*Batch                    *)
(***************************************************************************)
\* longest input array
MaxLen == 3

\* largest BatchSize drawn
MaxBatch == 2

\* decode failures after which the model stops following the element loop
MaxFailed == 3

\* imports of the same input
MaxPasses == 2

Families == {"charity", "trustee", "financial", "history"}

\* one element of the array: k = "ok" decodes into the record; "typeerr" is
\* well-formed JSON that does not fit the record type; "syntaxerr" is
\* malformed JSON
Rec(k, org, reg, linked, name, fye, latest, v) ==
    [k |-> k, org |-> org, reg |-> reg, linked |-> linked, name |-> name,
     fye |-> fye, latest |-> latest, v |-> v]

Elements ==
    { Rec("ok", 1, 5, 0, "a", 1, TRUE, 1),
      Rec("ok", 2, 5, 1, "b", 1, TRUE, 2),
      Rec("ok", 3, 0, 0, "", 0, FALSE, 3),
      Rec("typeerr", 0, 0, 0, "", 0, FALSE, 0),
      Rec("syntaxerr", 0, 0, 0, "", 0, FALSE, 0) }

RECURSIVE SeqsUpTo(_, _)
\* the sequences over S of length at most n
SeqsUpTo(S, n) ==
    IF n = 0 THEN {<<>>}
    ELSE LET shorter == SeqsUpTo(S, n - 1)
         IN  shorter \cup {Append(q, e) : q \in {x \in shorter : Len(x) = n - 1}, e \in S}

\* the whole store as one value
FullDB == [c |-> charities, f |-> financials, t |-> trustees, h |-> history, seq |-> histSeq]

SetFullDB(db) ==
    /\ charities' = db.c
    /\ financials' = db.f
    /\ trustees' = db.t
    /\ history' = db.h
    /\ histSeq' = db.seq

\* the record filter of insert*Batch: "Skip invalid records"
Valid(fam, e) ==
    CASE fam = "charity"   -> e.reg # 0
      [] fam = "trustee"   -> e.reg # 0 /\ e.name # ""
      [] fam = "financial" -> e.reg # 0 /\ e.fye # 0
      [] OTHER             -> TRUE

\* stmt.Exec for one record of the batch (for a charity also
\* insertFinancialData, when income, expenditure and period end are given)
InsertRecord(fam, db, e, now) ==
    CASE fam = "charity" ->
            [db EXCEPT
                !.c = InsertOrReplaceCharity(@,
                        [org |-> e.org, reg |-> e.reg, linked |-> e.linked, v |-> e.v,
                         last_updated |-> now]),
                !.f = IF e.fye # 0
                      THEN InsertOrReplaceFinancial(@,
                             [charity |-> e.reg, fye |-> e.fye, v |-> 0, last_updated |-> now])
                      ELSE @]
      [] fam = "trustee" ->
            [db EXCEPT !.t = InsertOrReplaceTrustee(@,
                        [charity |-> e.reg, name |-> e.name, last_updated |-> now])]
      [] fam = "financial" ->
            [db EXCEPT !.f = InsertOrReplaceFinancial(@,
                        [charity |-> e.reg, fye |-> e.fye, v |-> e.v, last_updated |-> now])]
      [] OTHER ->
            \* annual_return_history: id INTEGER PRIMARY KEY AUTOINCREMENT is the
            \* only key and is not given, so nothing is ever replaced
            [db EXCEPT !.h = @ \cup {[id |-> db.seq + 1, org |-> e.org, reg |-> e.reg,
                                      v |-> e.v]},
                       !.seq = @ + 1]

RECURSIVE InsertBatch(_, _, _, _)
\* the rows of a committed batch, inserted in batch order
InsertBatch(fam, db, batch, now) ==
    IF batch = <<>> THEN db
    ELSE LET rest == InsertBatch(fam, db, SubSeq(batch, 1, Len(batch) - 1), now)
             e == batch[Len(batch)]
         IN  IF Valid(fam, e) THEN InsertRecord(fam, rest, e, now) ELSE rest

\* the number of records of the batch that pass the filter
NumValid(fam, batch) == Cardinality({i \in 1..Len(batch) : Valid(fam, batch[i])})

\* what a batch transaction can come to
TxOutcomes == {"ok", "beginfail", "preparefail", "commitfail"}

\* rows written through a transaction that stay although it was never
\* committed
TxPersistsUncommitted(outcome) == outcome \in {"ok", "commitfail"}

\* the rows written through tx stay only when tx.Commit() succeeds: every
\* other way out of insert*Batch runs the deferred tx.Rollback(), and a failed
\* COMMIT is rolled back by the driver
TxPersists(outcome) == outcome = "ok"

\* insert*Batch(batch): a failed Begin or Prepare returns before anything is
\* counted; otherwise the counters are advanced, then Commit decides whether
\* the rows stay
Flush(batch, outcome) ==
    /\ IF TxPersists(outcome)
       THEN SetFullDB(InsertBatch(imFamily, FullDB, batch, dbNow))
       ELSE UNCHANGED <<charities, financials, trustees, history, histSeq>>
    /\ IF outcome \in {"beginfail", "preparefail"}
       THEN UNCHANGED <<successRecords, processedRecords>>
       ELSE /\ successRecords' = successRecords + NumValid(imFamily, batch)
            /\ processedRecords' = processedRecords + Len(batch)
    /\ imTxFailed' = (imTxFailed \/ outcome # "ok")
    /\ imLastTx' = outcome

NoFlush ==
    /\ UNCHANGED <<charities, financials, trustees, history, histSeq>>
    /\ UNCHANGED <<successRecords, processedRecords, imTxFailed>>
    /\ imLastTx' = "none"

\* records of the batch that the filter of insert*Batch skips
NumSkipped(outcome, batch) ==
    IF outcome \in {"beginfail", "preparefail"} THEN 0
    ELSE Len(batch) - NumValid(imFamily, batch)

\* a batch that is flushed only once it has outgrown BatchSize
BatchFullLate(batch) == Len(batch) > imBatchSize

\* "Process batch when full": len(batch) >= i.config.BatchSize
BatchFull(batch) == Len(batch) >= imBatchSize

\* decoder.More(): the next non-space byte is not the closing bracket; a
\* syntax error does not advance the decoder, so More() stays true
More == imPos <= Len(imInput)

\* the store content that an import is compared by: write timestamps dropped
Content ==
    [c |-> {[org |-> r.org, reg |-> r.reg, linked |-> r.linked, v |-> r.v] : r \in charities},
     f |-> {[charity |-> r.charity, fye |-> r.fye, v |-> r.v] : r \in financials},
     t |-> {[charity |-> r.charity, name |-> r.name] : r \in trustees},
     h |-> history]

NoContent == [c |-> {}, f |-> {}, t |-> {}, h |-> {}]

ImportIdle ==
    /\ imFamily = "charity"
    /\ imInput = <<>>
    /\ imBatchSize = 1
    /\ impc = "off"
    /\ imPass = 0
    /\ imPos = 1
    /\ imBatch = <<>>
    /\ totalRecords = 0
    /\ processedRecords = 0
    /\ successRecords = 0
    /\ skippedRecords = 0
    /\ failedRecords = 0
    /\ imTxFailed = FALSE
    /\ imSnap = NoContent
    /\ imFlushed = <<>>
    /\ imPeak = 0
    /\ imLastTx = "none"

\* an importer, an input array and a batch size, before the first import
ImportInit ==
    /\ imFamily \in Families
    /\ imInput \in SeqsUpTo(Elements, MaxLen)
    /\ imBatchSize \in 1..MaxBatch
    /\ impc = "off"
    /\ imPass = 0
    /\ imPos = 1
    /\ imBatch = <<>>
    /\ totalRecords = 0
    /\ processedRecords = 0
    /\ successRecords = 0
    /\ skippedRecords = 0
    /\ failedRecords = 0
    /\ imTxFailed = FALSE
    /\ imSnap = NoContent
    /\ imFlushed = <<>>
    /\ imPeak = 0
    /\ imLastTx = "none"

\* Import*FromReader is entered: fresh ImportProgress, a new decoder, the
\* opening bracket is read
ImportCall ==
    /\ impc \in {"off", "done"}
    /\ imPass < MaxPasses
    /\ imPass' = imPass + 1
    /\ impc' = "loop"
    /\ imPos' = 1
    /\ imBatch' = <<>>
    /\ totalRecords' = 0
    /\ processedRecords' = 0
    /\ successRecords' = 0
    /\ skippedRecords' = 0
    /\ failedRecords' = 0
    /\ dbNow' = dbNow + 1
    /\ imFlushed' = <<>>
    /\ imPeak' = 0
    /\ imLastTx' = "none"
    /\ UNCHANGED <<imFamily, imInput, imBatchSize, imTxFailed, imSnap>>
    /\ UNCHANGED <<charities, financials, trustees, history, histSeq>>
    /\ UNCHANGED nonImport

\* one turn of the `for decoder.More()` loop: Decode, the failure branch or
\* the append, and the flush of a full batch
DecodeElement(outcome) ==
    /\ impc = "loop"
    /\ More
    /\ failedRecords < MaxFailed
    /\ LET e == imInput[imPos]
           keep == e.k = "ok" /\ (imFamily = "financial" => e.latest)
           batch == IF keep THEN Append(imBatch, e) ELSE imBatch
           full == e.k = "ok" /\ BatchFull(batch)
       IN  /\ imPos' = IF e.k = "syntaxerr" THEN imPos ELSE imPos + 1
           /\ failedRecords' = IF e.k = "ok" THEN failedRecords ELSE failedRecords + 1
           /\ totalRecords' = IF e.k = "ok" THEN totalRecords + 1 ELSE totalRecords
           /\ skippedRecords' = skippedRecords
                                + (IF e.k = "ok" /\ ~keep THEN 1 ELSE 0)
                                + (IF full THEN NumSkipped(outcome, batch) ELSE 0)
           /\ imBatch' = IF full THEN <<>> ELSE batch
           /\ imFlushed' = IF full THEN imFlushed \o batch ELSE imFlushed
           /\ imPeak' = IF Len(batch) > imPeak THEN Len(batch) ELSE imPeak
           /\ IF full THEN Flush(batch, outcome) ELSE outcome = "ok" /\ NoFlush
    /\ UNCHANGED <<imFamily, imInput, imBatchSize, impc, imPass, imSnap, dbNow>>
    /\ UNCHANGED nonImport

\* the loop is over: "Process remaining records", the final statistics,
\* return nil
ImportReturn(outcome) ==
    /\ impc = "loop"
    /\ ~More
    /\ IF imBatch # <<>>
       THEN /\ Flush(imBatch, outcome)
            /\ skippedRecords' = skippedRecords + NumSkipped(outcome, imBatch)
       ELSE /\ outcome = "ok"
            /\ NoFlush
            /\ UNCHANGED skippedRecords
    /\ imFlushed' = imFlushed \o imBatch
    /\ UNCHANGED imPeak
    /\ impc' = "done"
    /\ imSnap' = IF imPass = 1 THEN Content' ELSE imSnap
    /\ UNCHANGED <<imFamily, imInput, imBatchSize, imPass, imPos, imBatch, totalRecords,
                   failedRecords, dbNow>>
    /\ UNCHANGED nonImport

(***************************************************************************)
(* scoring.CalculateScore                                                  *)
(***************************************************************************)
\* scores are float64 in the code; here they are fixed-point numbers, in
\* units of 1/Scale of a point (82.5 points is 82500)
Scale == 1000

\* CalculateScore calls
MaxScoreCalls == 2

\* the wall clock, in years, starts at 0 and runs to MaxNow; stored dates
\* are years relative to that start
MaxNow == 1

\* a row of annual_return_history as the three filing queries see it:
\*   due: reporting_due_date is not NULL; onTime: the return or the accounts
\*   arrived by the due date; received: date_annual_return_received is not
\*   NULL; qualified: accounts_qualified; end: fin_period_end_date
Filing(due, onTime, received, qualified, end) ==
    [due |-> due, onTime |-> onTime, received |-> received, qualified |-> qualified,
     end |-> end]

FilingRows ==
    { Filing(TRUE, TRUE, TRUE, "no", -1),
      Filing(TRUE, FALSE, FALSE, "yes", -3),
      Filing(TRUE, FALSE, TRUE, "null", -5),
      Filing(TRUE, TRUE, FALSE, "yes", -7) }

\* the latest financials row: one with spending, or one that reports no
\* spending
FinancialRows ==
    [TotalSpending : {100}, CharitableActivitiesSpend : {0, 80, 150},
     Reserves : {-30, 0, 30, 400}, Assets : {0, 10}]
    \cup [TotalSpending : {0}, CharitableActivitiesSpend : {0, 80},
          Reserves : {0}, Assets : {0}]

\* the zero-valued models.Financial left when the query finds no row
NoFinancial ==
    [TotalSpending |-> 0, CharitableActivitiesSpend |-> 0, Reserves |-> 0, Assets |-> 0]

\* no primary charities row: the first query fails
NoCharity ==
    [exists |-> FALSE, website |-> FALSE, lastUpdated |-> 0, hasFinancial |-> FALSE,
     fin |-> NoFinancial, trusteeCount |-> 0, filings |-> {}]

\* the stored data of one organization as CalculateScore's queries return
\* it; amounts are in thousands
ScoreInputs ==
    {NoCharity} \cup
    { in \in [exists : {TRUE}, website : BOOLEAN, lastUpdated : {-1, 0},
              hasFinancial : BOOLEAN, fin : FinancialRows,
              trusteeCount : {0, 1, 4}, filings : SUBSET FilingRows] :
        ~in.hasFinancial => in.fin = NoFinancial }

NoScore == [none |-> TRUE]

\* "Calculate Efficiency Score (40%)"
EfficiencyScore(in) ==
    IF in.hasFinancial /\ in.fin.CharitableActivitiesSpend > 0 /\ in.fin.TotalSpending > 0
    THEN Min(100 * Scale,
             (in.fin.CharitableActivitiesSpend * 100 * Scale) \div in.fin.TotalSpending)
    ELSE IF in.hasFinancial /\ in.fin.TotalSpending > 0 THEN 60 * Scale
    ELSE 0

\* reserves / monthlySpending, monthlySpending being TotalSpending / 12
ReserveMonths(in) ==
    LET reserves == IF in.fin.Reserves = 0 /\ in.fin.Assets > 0
                    THEN in.fin.Assets ELSE in.fin.Reserves
    IN  (reserves * 12 * Scale) \div in.fin.TotalSpending

\* "Calculate Financial Health Score (30%)"
FinancialHealthScore(in) ==
    IF in.hasFinancial /\ in.fin.TotalSpending > 0
    THEN IF in.fin.Reserves > 0 \/ in.fin.Assets > 0
         THEN LET reserveMonths == ReserveMonths(in)
              IN  IF reserveMonths >= 3 * Scale /\ reserveMonths <= 12 * Scale
                  THEN 100 * Scale
                  ELSE IF reserveMonths < 3 * Scale
                  THEN (reserveMonths * 100) \div 3
                  ELSE LET excessMonths == reserveMonths - 12 * Scale
                           penalty == Min(30 * Scale, (excessMonths * 5) \div 12)
                       IN  Max(70 * Scale, 100 * Scale - penalty)
         ELSE 50 * Scale
    ELSE 0

\* the rows of calculateFilingTimeliness: the three latest with a due date
TimelinessRows(fs) ==
    LET due == {f \in fs : f.due}
    IN  {f \in due : Cardinality({g \in due : g.end > f.end}) < 3}

\* a timeliness score without the neutral 50 for an empty filing history
FilingTimelinessNoNeutral(fs) ==
    LET rows == TimelinessRows(fs)
    IN  IF rows = {} THEN 0
        ELSE (Cardinality({f \in rows : f.onTime}) * 100 * Scale) \div Cardinality(rows)

\* calculateFilingTimeliness
FilingTimeliness(fs) ==
    LET rows == TimelinessRows(fs)
    IN  IF rows = {} THEN 50 * Scale
        ELSE (Cardinality({f \in rows : f.onTime}) * 100 * Scale) \div Cardinality(rows)

\* calculateFilingConsistency: the rows with
\* fin_period_end_date >= date('now', '-5 years')
FilingConsistency(fs, now) ==
    LET rows == {f \in fs : f.end >= now - 5}
    IN  IF rows = {} THEN 50 * Scale
        ELSE (Cardinality({f \in rows : f.received}) * 100 * Scale) \div Cardinality(rows)

\* calculateAccountsQuality: the rows with accounts_qualified not NULL and
\* fin_period_end_date >= date('now', '-3 years')
AccountsQuality(fs, now) ==
    LET rows == {f \in fs : f.end >= now - 3 /\ f.qualified # "null"}
        qualified == {f \in rows : f.qualified = "yes"}
    IN  IF rows = {} \/ qualified = {} THEN 100 * Scale
        ELSE 100 * Scale - (Cardinality(qualified) * 100 * Scale) \div Cardinality(rows)

\* "Calculate Transparency Score (20%)"
TransparencyScore(in, now) ==
    (IF in.website THEN 30 * Scale ELSE 0)
    + (IF in.hasFinancial THEN 20 * Scale ELSE 0)
    + (IF in.trusteeCount > 0 THEN 10 * Scale ELSE 0)
    + (FilingTimeliness(in.filings) * 25) \div 100
    + (FilingConsistency(in.filings, now) * 10) \div 100
    + (AccountsQuality(in.filings, now) * 5) \div 100

\* time.Since(charity.LastUpdated) > 365*24*time.Hour
Stale(in, now) == now - in.lastUpdated > 1

\* a governance score that counts the trustees of a stale record as absent
GovernanceScoreFresh(in) ==
    IF Stale(in, scNow) THEN 0
    ELSE IF in.trusteeCount >= 3 THEN 100 * Scale
    ELSE IF in.trusteeCount > 0 THEN (in.trusteeCount * 100 * Scale) \div 3
    ELSE 0

\* "Calculate Governance Score (10%)"
GovernanceScore(in) ==
    IF in.trusteeCount >= 3 THEN 100 * Scale
    ELSE IF in.trusteeCount > 0 THEN (in.trusteeCount * 100 * Scale) \div 3
    ELSE 0

\* "Overall Score"
OverallScore(in, now) ==
    (EfficiencyScore(in) * 40 + FinancialHealthScore(in) * 30
     + TransparencyScore(in, now) * 20 + GovernanceScore(in) * 10) \div 100

\* "Confidence Level"
ConfidenceLevel(in, now) ==
    LET dataCompleteness ==
            (IF in.hasFinancial THEN 1 ELSE 0) + (IF in.website THEN 1 ELSE 0)
            + (IF in.trusteeCount > 0 THEN 1 ELSE 0) - (IF Stale(in, now) THEN 1 ELSE 0)
    IN  IF dataCompleteness >= 2 THEN "high"
        ELSE IF dataCompleteness = 1 THEN "medium"
        ELSE "low"

\* the CharityScore CalculateScore builds at wall-clock time now
\* (LastCalculated aside)
Score(in, now) ==
    [none |-> FALSE,
     EfficiencyScore |-> EfficiencyScore(in),
     FinancialHealthScore |-> FinancialHealthScore(in),
     TransparencyScore |-> TransparencyScore(in, now),
     GovernanceScore |-> GovernanceScore(in),
     OverallScore |-> OverallScore(in, now),
     ConfidenceLevel |-> ConfidenceLevel(in, now)]

ScoreIdle ==
    /\ scIn = NoCharity
    /\ scNow = 0
    /\ scOut = NoScore
    /\ scOutNow = 0
    /\ scPrev = NoScore
    /\ scPrevNow = 0
    /\ scErr = FALSE
    /\ scoreRow = NoScore
    /\ scCalls = 0

\* some stored data, no score computed yet
ScoreInit ==
    /\ scIn \in ScoreInputs
    /\ scNow = 0
    /\ scOut = NoScore
    /\ scOutNow = 0
    /\ scPrev = NoScore
    /\ scPrevNow = 0
    /\ scErr = FALSE
    /\ scoreRow = NoScore
    /\ scCalls = 0

\* a first query that finds a row whatever the table holds
FirstQueryNeverFails(in) == FALSE

\* the error of the first QueryRow(...).Scan: sql.ErrNoRows when charities
\* has no row with this registered_number and linked_charity_number = 0
FirstQueryFails(in) == ~in.exists

\* CalculateScore(db, charityNumber, cache): without a primary charities row
\* the first query's error is returned; otherwise the score is computed and,
\* when caching, written with INSERT OR REPLACE INTO charity_scores
CalculateScoreCall(cache, execOk) ==
    /\ scCalls < MaxScoreCalls
    /\ scCalls' = scCalls + 1
    /\ scPrev' = scOut
    /\ scPrevNow' = scOutNow
    /\ scOutNow' = scNow
    /\ IF FirstQueryFails(scIn)
       THEN /\ scOut' = NoScore
            /\ scErr' = TRUE
            /\ UNCHANGED scoreRow
       ELSE /\ scOut' = Score(scIn, scNow)
            /\ scErr' = (cache /\ ~execOk)
            /\ scoreRow' = IF cache /\ execOk THEN Score(scIn, scNow) ELSE scoreRow
    /\ UNCHANGED <<scIn, scNow>>
    /\ UNCHANGED nonScore

\* an import replaces the organization's row (INSERT OR REPLACE on
\* organisation_number) by one with another registered or linked number: the
\* registration number has no primary row any more, its score row stays
PrimaryRowReplaced ==
    /\ scIn.exists
    /\ scIn' = NoCharity
    /\ UNCHANGED <<scNow, scOut, scOutNow, scPrev, scPrevNow, scErr, scoreRow, scCalls>>
    /\ UNCHANGED nonScore

\* time passes between two calls
ClockTick ==
    /\ scNow < MaxNow
    /\ scNow' = scNow + 1
    /\ UNCHANGED <<scIn, scOut, scOutNow, scPrev, scPrevNow, scErr, scoreRow, scCalls>>
    /\ UNCHANGED nonScore

(***************************************************************************)
(* downloader.DownloadFiles                                                *)
(***************************************************************************)
\* longest fileTypes list
MaxFiles == 3

\* three of the FileType values
FileTypes == {"charity", "charity_trustee", "charity_annual_return_history"}

DlWorkers == 1..MaxFiles

FileLists == UNION {[1..n -> FileTypes] : n \in 0..MaxFiles}

DownloadIdle ==
    /\ dlReq = <<>>
    /\ dlpc = "off"
    /\ dlwpc = [i \in DlWorkers |-> "off"]
    /\ dlGot = [i \in DlWorkers |-> "none"]
    /\ dlResults = {}
    /\ dlErrors = {}
    /\ dlRet = "none"

\* an error that is dropped instead of being returned
DownloadFilesErrorDropped(errs) == "nil"

\* "Check if any critical errors occurred": the error DownloadFiles returns
DownloadFilesError(errs) == IF errs # {} THEN "err" ELSE "nil"

\* DownloadFiles up to wg.Wait(): fresh maps and one goroutine per element
DownloadFilesCall(fileTypes) ==
    /\ dlpc = "off"
    /\ dlReq' = fileTypes
    /\ dlpc' = "wait"
    /\ dlwpc' = [i \in DlWorkers |-> IF i <= Len(fileTypes) THEN "run" ELSE "off"]
    /\ dlGot' = [i \in DlWorkers |-> "none"]
    /\ dlResults' = {}
    /\ dlErrors' = {}
    /\ dlRet' = "none"
    /\ UNCHANGED nonDownload

\* a goroutine's d.DownloadFile(ctx, ft) returns a file or an error
DownloadFileDone(i, ok) ==
    /\ dlpc = "wait"
    /\ dlwpc[i] = "run"
    /\ dlGot' = [dlGot EXCEPT ![i] = IF ok THEN "ok" ELSE "err"]
    /\ dlwpc' = [dlwpc EXCEPT ![i] = "got"]
    /\ UNCHANGED <<dlReq, dlpc, dlResults, dlErrors, dlRet>>
    /\ UNCHANGED nonDownload

\* under mu: errors[ft] = err, or results[ft] = file; then wg.Done()
DownloadRecord(i) ==
    /\ dlpc = "wait"
    /\ dlwpc[i] = "got"
    /\ IF dlGot[i] = "err"
       THEN dlErrors' = dlErrors \cup {dlReq[i]} /\ UNCHANGED dlResults
       ELSE dlResults' = dlResults \cup {dlReq[i]} /\ UNCHANGED dlErrors
    /\ dlwpc' = [dlwpc EXCEPT ![i] = "done"]
    /\ UNCHANGED <<dlReq, dlpc, dlGot, dlRet>>
    /\ UNCHANGED nonDownload

\* wg.Wait() returned: the results map and the combined error
DownloadFilesReturn ==
    /\ dlpc = "wait"
    /\ \A i \in DlWorkers : dlwpc[i] \in {"off", "done"}
    /\ dlRet' = DownloadFilesError(dlErrors)
    /\ dlpc' = "returned"
    /\ UNCHANGED <<dlReq, dlwpc, dlGot, dlResults, dlErrors>>
    /\ UNCHANGED nonDownload

(***************************************************************************)
(* Client.GetKeyStats                                                      *)
(***************************************************************************)
\* longest configured key
MaxKeyLen == 13

\* the characters of a key
KeyChars == {"a", "b"}

ApiKeys == UNION {[1..n -> KeyChars] : n \in 1..MaxKeyLen}

\* "Mask the key for security (show first 8 chars)"
MaskedKey(key) ==
    IF Len(key) > 8
    THEN SubSeq(key, 1, 8) \o <<".", ".", ".">> \o SubSeq(key, Len(key) - 3, Len(key))
    ELSE key

MaskIdle ==
    /\ mkKey = <<>>
    /\ mkId = <<>>
    /\ mkDone = FALSE

\* NewClient with the key among config.APIKeys
MaskInit ==
    /\ mkKey \in ApiKeys
    /\ mkId = <<>>
    /\ mkDone = FALSE

\* GetKeyStats: result[maskedKey] = KeyStats{...}
GetKeyStats ==
    /\ mkKey # <<>>
    /\ mkId' = MaskedKey(mkKey)
    /\ mkDone' = TRUE
    /\ UNCHANGED mkKey
    /\ UNCHANGED nonMask

(***************************************************************************)
(* Importer.CalculateAllScores (charityseeder -mode score)                 *)
(***************************************************************************)
MaxOrgs == 2
MaxReg == 2
MaxScoreRuns == 2

OrgNumbers == 1..MaxOrgs
RegNumbers == 1..MaxReg
LinkedIds == {0, 1}
Statuses == {"Registered", "Removed", "RM"}

NoOrg == [registered_number |-> 0, linked_charity_number |-> 0, status |-> ""]
NoRow == [charity_number |-> 0, overall_score |-> 0, last_calculated |-> 0]

MaxDataChanges == 1

\* overall scores CalculateScore may compute from an organisation's rows
ScoreValues == {40, 90}

CharityRows == [registered_number : RegNumbers, linked_charity_number : LinkedIds,
                status : Statuses]

\* the row CalculateScore stores: keyed by charity_number, stamped time.Now()
ScoreRowOf(n, overall, now) ==
    [charity_number |-> n, overall_score |-> overall, last_calculated |-> now]

NoProgress == [ProcessedRecords |-> 0, SuccessRecords |-> 0, FailedRecords |-> 0]

AllScoresIdle ==
    /\ asCharities = [o \in OrgNumbers |-> NoOrg]
    /\ asScores = [n \in RegNumbers |-> NoRow]
    /\ asBefore = [n \in RegNumbers |-> NoRow]
    /\ aspc = "idle"
    /\ asList = <<>>
    /\ asIdx = 0
    /\ asFailed = {}
    /\ asProgress = NoProgress
    /\ asRuns = 0
    /\ asCurrent = [n \in RegNumbers |-> 40]
    /\ asChanges = 0
    /\ asChangedSince = {}

\* an order on rows, used to list each table once: which organisation_number
\* a row carries has no part in CalculateAllScores
RowRank(c) ==
    IF c = NoOrg THEN 0
    ELSE 1 + 6 * (c.registered_number - 1) + 3 * c.linked_charity_number
           + (CASE c.status = "Registered" -> 0 [] c.status = "Removed" -> 1 [] OTHER -> 2)

\* a database after imports and earlier score runs: any organisations, and
\* for each number either no score or one stored earlier (at time 0)
AllScoresInit ==
    /\ asCharities \in [OrgNumbers -> CharityRows \cup {NoOrg}]
    /\ \A o \in OrgNumbers : o + 1 \in OrgNumbers =>
           RowRank(asCharities[o]) <= RowRank(asCharities[o + 1])
    /\ asScores \in [RegNumbers -> {NoRow} \cup {ScoreRowOf(n, 40, 0) : n \in RegNumbers}]
    /\ \A n \in RegNumbers : asScores[n] # NoRow => asScores[n].charity_number = n
    /\ asBefore = asScores
    /\ aspc = "idle"
    /\ asList = <<>>
    /\ asIdx = 0
    /\ asFailed = {}
    /\ asProgress = NoProgress
    /\ asRuns = 0
    /\ asCurrent = [n \in RegNumbers |-> 40]
    /\ asChanges = 0
    /\ asChangedSince = {}

\* a WHERE clause without the NOT EXISTS sub-select
NeedsScoreAgain(c, scores) ==
    /\ c # NoOrg
    /\ c.linked_charity_number = 0
    /\ c.status \notin {"Removed", "RM"}

\* WHERE c.linked_charity_number = 0 AND c.status NOT IN ('Removed', 'RM')
\*   AND NOT EXISTS (SELECT 1 FROM charity_scores s
\*                   WHERE s.charity_number = c.registered_number)
NeedsScore(c, scores) ==
    /\ c # NoOrg
    /\ c.linked_charity_number = 0
    /\ c.status \notin {"Removed", "RM"}
    /\ scores[c.registered_number] = NoRow

SelectedOrgs == {o \in OrgNumbers : NeedsScore(asCharities[o], asScores)}

RECURSIVE OrderByRegisteredNumber(_)
\* SELECT c.registered_number ... ORDER BY c.registered_number, one entry a row
OrderByRegisteredNumber(S) ==
    IF S = {} THEN <<>>
    ELSE LET o == CHOOSE x \in S : \A y \in S :
                      \/ asCharities[x].registered_number < asCharities[y].registered_number
                      \/ /\ asCharities[x].registered_number = asCharities[y].registered_number
                         /\ x <= y
         IN <<asCharities[o].registered_number>> \o OrderByRegisteredNumber(S \ {o})

\* CalculateAllScores up to the range loop: count, return when nothing needs
\* a score, otherwise reset the progress tracker and fetch every number
CalculateAllScoresCall ==
    /\ aspc \in {"idle", "done"}
    /\ asRuns < MaxScoreRuns
    /\ asRuns' = asRuns + 1
    /\ asBefore' = asScores
    /\ asFailed' = {}
    /\ asChangedSince' = {}
    /\ IF Cardinality(SelectedOrgs) = 0
       THEN /\ aspc' = "done"
            /\ asList' = <<>>
            /\ asIdx' = 0
            /\ UNCHANGED asProgress
       ELSE /\ aspc' = "loop"
            /\ asList' = OrderByRegisteredNumber(SelectedOrgs)
            /\ asIdx' = 1
            /\ asProgress' = NoProgress
    /\ UNCHANGED <<asCharities, asScores, asCurrent, asChanges>>
    /\ UNCHANGED nonAllScores

\* one pass of the range loop: scoring.CalculateScore(i.db, charityNum)
\* stores its row with INSERT OR REPLACE, or returns an error and stores none
ScoreOne(ok) ==
    /\ aspc = "loop"
    /\ asIdx <= Len(asList)
    /\ LET n == asList[asIdx] IN
         IF ok
         THEN /\ asScores' = [asScores EXCEPT ![n] = ScoreRowOf(n, asCurrent[n], asRuns)]
              /\ asProgress' = [asProgress EXCEPT
                                   !.SuccessRecords = @ + 1, !.ProcessedRecords = @ + 1]
              /\ UNCHANGED asFailed
         ELSE /\ asFailed' = asFailed \cup {n}
              /\ asProgress' = [asProgress EXCEPT
                                   !.FailedRecords = @ + 1, !.ProcessedRecords = @ + 1]
              /\ UNCHANGED asScores
    /\ asIdx' = asIdx + 1
    /\ UNCHANGED <<asCharities, asBefore, aspc, asList, asRuns, asCurrent, asChanges,
                   asChangedSince>>
    /\ UNCHANGED nonAllScores

\* the loop is over: logFinalStats, return nil
CalculateAllScoresReturn ==
    /\ aspc = "loop"
    /\ asIdx > Len(asList)
    /\ aspc' = "done"
    /\ UNCHANGED <<asCharities, asScores, asBefore, asList, asIdx, asFailed, asProgress,
                   asRuns, asCurrent, asChanges, asChangedSince>>
    /\ UNCHANGED nonAllScores

\* between two runs of the seeder an import or a crawl rewrites the rows of
\* one organisation, so that CalculateScore would now compute another score
DataChange(n, v) ==
    /\ aspc \in {"idle", "done"}
    /\ asChanges < MaxDataChanges
    /\ v # asCurrent[n]
    /\ asCurrent' = [asCurrent EXCEPT ![n] = v]
    /\ asChanges' = asChanges + 1
    /\ asChangedSince' = asChangedSince \cup {n}
    /\ UNCHANGED <<asCharities, asScores, asBefore, aspc, asList, asIdx, asFailed,
                   asProgress, asRuns>>
    /\ UNCHANGED nonAllScores

(***************************************************************************)
(* The web server: the /health endpoint and the readiness signal           *)
(***************************************************************************)
\* /health requests received
MaxHealthRequests == 4

\* the goroutines the HTTP server runs the /health handler on
HealthProcs == {1, 2}

\* the router is created: readyChan := make(chan bool, 1), nothing sent yet
HealthIdle ==
    /\ readyChan = 0
    /\ hlSignalled = FALSE
    /\ hlpc = [p \in HealthProcs |-> "idle"]
    /\ hlLate = [p \in HealthProcs |-> FALSE]
    /\ hlLog = <<>>
    /\ hlReqs = 0

\* "Signal that the app is ready": readyChan <- true, once, at the end of the
\* start-up goroutine
SignalReady ==
    /\ ~hlSignalled
    /\ readyChan < 1
    /\ readyChan' = readyChan + 1
    /\ hlSignalled' = TRUE
    /\ UNCHANGED <<hlpc, hlLate, hlLog, hlReqs>>
    /\ UNCHANGED nonHealth

\* a /health request reaches the handler's select: `case <-readyChan`
\* receives the buffered value when there is one, else `default`
HealthSelect(p) ==
    /\ hlpc[p] = "idle"
    /\ hlReqs < MaxHealthRequests
    /\ hlReqs' = hlReqs + 1
    /\ hlLate' = [hlLate EXCEPT ![p] = hlSignalled]
    /\ IF readyChan > 0
       THEN /\ readyChan' = readyChan - 1
            /\ hlpc' = [hlpc EXCEPT ![p] = "ok"]
       ELSE /\ UNCHANGED readyChan
            /\ hlpc' = [hlpc EXCEPT ![p] = "init"]
    /\ UNCHANGED <<hlSignalled, hlLog>>
    /\ UNCHANGED nonHealth

\* the branch taken writes the response: 200 "OK" or 503 "Initializing..."
HealthRespond(p) ==
    /\ hlpc[p] \in {"ok", "init"}
    /\ hlLog' = Append(hlLog, [code |-> IF hlpc[p] = "ok" THEN 200 ELSE 503,
                               late |-> hlLate[p]])
    /\ hlpc' = [hlpc EXCEPT ![p] = "idle"]
    /\ UNCHANGED <<readyChan, hlSignalled, hlLate, hlReqs>>
    /\ UNCHANGED nonHealth

(***************************************************************************)
(* Specifications                                                          *)
(***************************************************************************)
NextClient ==
    \/ \E r \in Reqs : DoRequestCall(r)
    \/ \E r \in Reqs : LoopHead(r)
    \/ \E r \in Reqs : LimiterWaitOk(r)
    \/ \E r \in Reqs : CtxReturn(r)
    \/ \E r \in Reqs : BackoffDone(r)
    \/ \E r \in Reqs, o \in Outcomes, ra \in RetryAfters : Send(r, o, ra)
    \/ \E r \in Reqs : SleepDone(r)
    \/ CtxCancel

NextStore ==
    \/ \E p \in StoreProcs, d \in FetchedData, ok \in BOOLEAN : StoreCharityCall(p, d, ok)
    \/ \E p \in StoreProcs, ok \in BOOLEAN : StoreCharityExec(p, ok)
    \/ \E p \in StoreProcs, ok \in BOOLEAN : StoreCharityCommit(p, ok)
    \/ \E p \in StoreProcs, d \in FetchedData, ok \in BOOLEAN : FetchAndStoreCall(p, d, ok)
    \/ \E p \in StoreProcs, ok \in BOOLEAN : FetchAndStoreExec(p, ok)
    \/ Crash

InitStore == DBEmpty /\ StoreIdle /\ RLIdle /\ ClientIdle /\ CrawlIdle /\ ImportIdle /\ ScoreIdle /\ DownloadIdle /\ MaskIdle /\ AllScoresIdle /\ HealthIdle

NextImport ==
    \/ ImportCall
    \/ \E o \in TxOutcomes : DecodeElement(o)
    \/ \E o \in TxOutcomes : ImportReturn(o)

InitImport == ImportInit /\ DBEmpty /\ StoreIdle /\ RLIdle /\ ClientIdle /\ CrawlIdle /\ ScoreIdle /\ DownloadIdle /\ MaskIdle /\ AllScoresIdle /\ HealthIdle

SpecImport == InitImport /\ [][NextImport]_vars

NextScore ==
    \/ \E cache \in BOOLEAN, ok \in BOOLEAN : CalculateScoreCall(cache, ok)
    \/ PrimaryRowReplaced
    \/ ClockTick

InitScore ==
    ScoreInit /\ ImportIdle /\ DBEmpty /\ StoreIdle /\ RLIdle /\ ClientIdle /\ CrawlIdle /\ DownloadIdle /\ MaskIdle /\ AllScoresIdle /\ HealthIdle

SpecScore == InitScore /\ [][NextScore]_vars

NextDownload ==
    \/ \E fileTypes \in FileLists : DownloadFilesCall(fileTypes)
    \/ \E i \in DlWorkers, ok \in BOOLEAN : DownloadFileDone(i, ok)
    \/ \E i \in DlWorkers : DownloadRecord(i)
    \/ DownloadFilesReturn

InitDownload ==
    DownloadIdle /\ ScoreIdle /\ ImportIdle /\ DBEmpty /\ StoreIdle /\ RLIdle /\ ClientIdle /\ CrawlIdle /\ MaskIdle /\ AllScoresIdle /\ HealthIdle

SpecDownload == InitDownload /\ [][NextDownload]_vars

NextAllScores ==
    \/ CalculateAllScoresCall
    \/ \E ok \in BOOLEAN : ScoreOne(ok)
    \/ CalculateAllScoresReturn
    \/ \E n \in RegNumbers, v \in ScoreValues : DataChange(n, v)

InitAllScores ==
    AllScoresInit /\ MaskIdle /\ DownloadIdle /\ ScoreIdle /\ ImportIdle /\ DBEmpty /\ StoreIdle /\ HealthIdle
    /\ RLIdle /\ ClientIdle /\ CrawlIdle

SpecAllScores == InitAllScores /\ [][NextAllScores]_vars

NextMask == GetKeyStats

InitMask ==
    MaskInit /\ DownloadIdle /\ ScoreIdle /\ ImportIdle /\ DBEmpty /\ StoreIdle /\ RLIdle /\ AllScoresIdle /\ HealthIdle
    /\ ClientIdle /\ CrawlIdle

SpecMask == InitMask /\ [][NextMask]_vars

NextCrawl ==
    \/ \E w \in 0..MaxWorkers, resume \in Resumes : RunStart(w, resume)
    \/ FeederSend
    \/ FeederRecord
    \/ FeederClose
    \/ \E w \in Workers : WorkerReceive(w)
    \/ \E w \in Workers : WorkerExit(w)
    \/ \E w \in Workers, o \in ProcessOutcomes : WorkerProcess(w, o)
    \/ Cancel
    \/ MainFinish
    \/ Kill

InitCrawl == CrawlIdle /\ DBEmpty /\ StoreIdle /\ RLIdle /\ ClientIdle /\ ImportIdle /\ ScoreIdle /\ DownloadIdle /\ MaskIdle /\ AllScoresIdle /\ HealthIdle

SpecCrawl == InitCrawl /\ [][NextCrawl]_vars

\* the Go scheduler runs every goroutine that can take a step: the feeder,
\* each worker and the main goroutine; signals and kills are not owed
CrawlFairness ==
    /\ WF_vars(FeederSend)
    /\ WF_vars(FeederRecord)
    /\ WF_vars(FeederClose)
    /\ \A w \in Workers :
          /\ WF_vars(WorkerReceive(w))
          /\ WF_vars(WorkerExit(w))
          /\ WF_vars(\E o \in ProcessOutcomes : WorkerProcess(w, o))
    /\ WF_vars(MainFinish)

SpecCrawlLive == SpecCrawl /\ CrawlFairness

SpecStore == InitStore /\ [][NextStore]_vars

InitClient == ClientInit /\ RLIdle /\ DBEmpty /\ StoreIdle /\ CrawlIdle /\ ImportIdle /\ ScoreIdle /\ DownloadIdle /\ MaskIdle /\ AllScoresIdle /\ HealthIdle

SpecClient == InitClient /\ [][NextClient]_vars

NextRL ==
    \/ \E c \in Callers : WaitCall(c)
    \/ \E c \in Callers : WaitWake(c)
    \/ RLCancel
    \/ \E c \in Callers : WaitCtxReturn(c)
    \/ Tick

InitRL == RLInit /\ ClientIdle /\ DBEmpty /\ StoreIdle /\ CrawlIdle /\ ImportIdle /\ ScoreIdle /\ DownloadIdle /\ MaskIdle /\ AllScoresIdle /\ HealthIdle

SpecRL == InitRL /\ [][NextRL]_vars

NextBusy ==
    \/ \E c \in Callers : BusyWaitCall(c)
    \/ \E c \in Callers : WaitWake(c)
    \/ \E c \in Callers : SleepThrough(c)

SpecBusy == InitRL /\ [][NextBusy]_vars

NextShared ==
    \/ \E c \in SharedCallers : WaitCall(c)
    \/ \E c \in SharedCallers : WaitWake(c)
    \/ Tick

SpecShared == InitRL /\ [][NextShared]_vars

NextHealth ==
    \/ SignalReady
    \/ \E p \in HealthProcs : HealthSelect(p)
    \/ \E p \in HealthProcs : HealthRespond(p)

InitHealth ==
    HealthIdle /\ RLIdle /\ ClientIdle /\ DBEmpty /\ StoreIdle /\ CrawlIdle /\ ImportIdle /\ ScoreIdle /\ DownloadIdle /\ MaskIdle /\ AllScoresIdle

SpecHealth == InitHealth /\ [][NextHealth]_vars

(***************************************************************************)
(* C1                                                                      *)
(***************************************************************************)
\* number of completed Waits in the one-second window that ends at time t
CompletionsInWindow(t) ==
    Cardinality({i \in 1..Len(requestHistory) :
                    requestHistory[i] > t - Second /\ requestHistory[i] <= t})

\* C1: for every rate r > 0 and every sequence of sequential Wait calls on a
\* fresh limiter, no rolling one-second window holds more than r completions.
C1_WindowBound ==
    \A i \in 1..Len(requestHistory) :
        CompletionsInWindow(requestHistory[i]) <= rlRate

(***************************************************************************)
(* C6                                                                      *)
(***************************************************************************)
\* C6: once an attempt of a logical request (first or retry, any number of
\* keys) is answered 404, doRequest has returned the not-found error: no
\* HTTP request and no sleep follows the 404, and attempt is not advanced.
C6_NotFoundReturnsAtOnce ==
    \A r \in Reqs :
        nf[r] => /\ rqpc[r] = "done"
                 /\ result[r] = "notfound"
                 /\ afterNF[r] = 0
                 /\ sent[r] = attempt[r] + 1

\* a retry attempt of a client with several keys was answered 404
C6_Witness ==
    \E r \in Reqs : nf[r] /\ attempt[r] >= 1 /\ numKeys > 1 /\ rqpc[r] = "done"

(***************************************************************************)
(* C7                                                                      *)
(***************************************************************************)
\* number of getNextAPIKey calls so far
SelTotal ==
    LET RECURSIVE Sum(_)
        Sum(k) == IF k < 0 THEN 0 ELSE selCount[k] + Sum(k - 1)
    IN  Sum(MaxKeys - 1)

\* C7: with k keys, after m >= k key selections every key has been selected
\* at least m \div k times, and the m-th selection is key number m % k of the
\* list: a plain modulo counter, for k = 1 as well.
C7_RoundRobin ==
    /\ SelTotal >= numKeys => \A key \in Keys : selCount[key] >= SelTotal \div numKeys
    /\ SelTotal > 0 => lastSel = SelTotal % numKeys

\* several keys, at least k requests, each of a single attempt
C7_Witness ==
    /\ numKeys >= 2
    /\ SelTotal >= numKeys
    /\ reqStarted = SelTotal
    /\ \A r \in Reqs : rqpc[r] \in {"idle", "done"}

(***************************************************************************)
(* C9                                                                      *)
(***************************************************************************)
\* C9: after any sequence of bulk imports, crawler stores and
\* fetch-and-store calls, table charities holds exactly one row per
\* (registration number, linked id) pair.
C9_OneRowPerRegLinked ==
    \A r1, r2 \in charities :
        (r1.reg = r2.reg /\ r1.linked = r2.linked) => r1 = r2

(***************************************************************************)
(* C10                                                                     *)
(***************************************************************************)
\* the rows written for the fetch d: all of them are in the store
AllRowsIn(c, f, t, d) ==
    /\ \E r \in c : r.reg = d.reg /\ r.last_updated = d.now
    /\ d.fin => \E r \in f : r.charity = d.reg /\ r.fye = d.fye /\ r.last_updated = d.now
    /\ \A i \in 1..Len(d.names) :
          \E r \in t : r.charity = d.reg /\ r.name = d.names[i] /\ r.last_updated = d.now

\* none of the rows written for the fetch d is in the store
NoRowIn(c, f, t, d) ==
    /\ ~\E r \in c : r.last_updated = d.now
    /\ ~\E r \in f : r.last_updated = d.now
    /\ ~\E r \in t : r.last_updated = d.now

\* C10: whenever a storeCharity call ends (commit, error at any statement,
\* failed commit, or death of the process), either the charity row, the
\* financial row and every trustee row of that fetch are in the store, or
\* none of them is.
C10_StoreCharityAtomic ==
    [][\A p \in StoreProcs :
          (stpc[p] = "tx" /\ stpc'[p] # "tx") =>
              \/ AllRowsIn(charities', financials', trustees', stData[p])
              \/ NoRowIn(charities', financials', trustees', stData[p])]_vars

\* a storeCharity call with a financial row and trustees failed or died
\* after at least two statements had been executed
C10_Witness ==
    \E p \in StoreProcs :
        /\ stpc[p] = "idle"
        /\ stResult[p] \in {"err", "crashed"}
        /\ stExec[p] >= 2
        /\ Len(StoreStmts(stData[p])) >= 3
        /\ NoRowIn(charities, financials, trustees, stData[p])

(***************************************************************************)
(* C2                                                                      *)
(***************************************************************************)
\* every identifier from the run's starting point to the range end was
\* received from the queue exactly once, and no other identifier at all
ReceivedExactlyOnce ==
    \A i \in Ids : recvCount[i] = IF i >= runStart THEN 1 ELSE 0

\* C2 as stated: in a run that ended without cancellation every identifier
\* of the run's range was received by exactly one worker exactly once, for
\* every worker count W.
C2_EveryIdOnceAnyW ==
    (crpc = "done" /\ ~cancelled) => ReceivedExactlyOnce

\* C2, amended: with at least one worker, in a run that ended without
\* cancellation every identifier from the run's starting point to the range
\* end was received exactly once; and in every run, at every moment, no
\* identifier has been received twice.
C2_EveryIdOnce ==
    /\ (crpc = "done" /\ ~cancelled /\ cfgW >= 1) => ReceivedExactlyOnce
    /\ \A i \in Ids : recvCount[i] <= 1

\* a run of two workers over more than one identifier ended uncancelled
C2_Witness ==
    /\ crpc = "done"
    /\ ~cancelled
    /\ cfgW >= 2
    /\ runStart < EndCharity
    /\ ReceivedExactlyOnce

(***************************************************************************)
(* C3                                                                      *)
(***************************************************************************)
\* the current run was started without a resume argument while the
\* persisted checkpoint lay within the requested range, and has dispatched
CheckpointResumed ==
    /\ crpc \in {"wait", "done"}
    /\ cfgResume = 0
    /\ runCkpt >= StartCharity
    /\ runCkpt <= EndCharity
    /\ firstDispatched # 0

\* C3 as stated: such a run dispatches c+1 first, c being the checkpoint.
C3_ResumesAfterCheckpoint ==
    CheckpointResumed => firstDispatched = runCkpt + 1

\* C3, amended: such a run dispatches the checkpointed identifier c itself
\* first (not c+1, and not the range start unless c is the range start).
C3_ResumesAtCheckpoint ==
    CheckpointResumed => firstDispatched = runCkpt

\* a second run resumed from a checkpoint beyond the range start
C3_Witness ==
    /\ CheckpointResumed
    /\ runs >= 2
    /\ runCkpt > StartCharity
    /\ firstDispatched = runCkpt

(***************************************************************************)
(* C4                                                                      *)
(***************************************************************************)
\* C4: for each of the four record families, when the same array has been
\* imported twice (no transaction failing), the store holds the same rows,
\* write timestamps aside, as after the first import.
C4_ImportTwiceSameStore ==
    (impc = "done" /\ imPass = 2 /\ ~imTxFailed) => Content = imSnap

(***************************************************************************)
(* C5                                                                      *)
(***************************************************************************)
\* exactly one element of the input fails to decode, and every other one
\* is a record its family's batch insert accepts
OneBadElement ==
    /\ Cardinality({i \in 1..Len(imInput) : imInput[i].k # "ok"}) = 1
    /\ \A i \in 1..Len(imInput) :
          imInput[i].k = "ok" =>
              /\ Valid(imFamily, imInput[i])
              /\ imFamily = "financial" => imInput[i].latest

\* C5: importing an array of n records of which exactly one fails to decode
\* counts that element as failed once, goes on with the next element, and
\* returns with n-1 records counted as success and 1 as failed.
C5_OneBadElementTolerated ==
    (OneBadElement /\ ~imTxFailed /\ impc # "off") =>
        /\ failedRecords <= 1
        /\ impc = "done" => (successRecords = Len(imInput) - 1 /\ failedRecords = 1)

(***************************************************************************)
(* C8                                                                      *)
(***************************************************************************)
InRange(x) == 0 <= x /\ x <= 100 * Scale

\* C8: for every stored combination of financial values, trustees, website
\* and filing history, each of the four dimension scores and the overall
\* score that CalculateScore returns lies between 0 and 100.
C8_ScoresInRange ==
    scOut # NoScore =>
        /\ InRange(scOut.EfficiencyScore)
        /\ InRange(scOut.FinancialHealthScore)
        /\ InRange(scOut.TransparencyScore)
        /\ InRange(scOut.GovernanceScore)
        /\ InRange(scOut.OverallScore)

(***************************************************************************)
(* C11                                                                     *)
(***************************************************************************)
NoWorkerMidItem == \A w \in Workers : wpc[w] # "got"

\* C11: every identifier a worker finishes is counted in exactly one of the
\* three outcome counters (skipped only, success only, or failed only), so
\* whenever no worker is mid-item TotalProcessed = Successful + Failed +
\* Skipped.
C11_CountersPartition ==
    (crpc \in {"wait", "done"} /\ NoWorkerMidItem) =>
        totalProcessed = successful + failed + skipped

(***************************************************************************)
(* C12                                                                     *)
(***************************************************************************)
TwoCalls == scPrev # NoScore /\ scOut # NoScore

WorkedExample ==
    /\ scIn.exists /\ scIn.hasFinancial /\ scIn.website
    /\ scIn.fin.TotalSpending = 100
    /\ scIn.fin.CharitableActivitiesSpend = 80
    /\ scIn.fin.Reserves = 30
    /\ scIn.trusteeCount = 4
    /\ scIn.filings = {}

\* C13: with total spending 100,000, charitable spend 80,000, reserves
\* 30,000, a website, 4 trustees and no filing-history rows, CalculateScore
\* returns efficiency 80, financial health 100, transparency 82.5,
\* governance 100 and overall 88.5.
C13_WorkedExample ==
    (WorkedExample /\ scOut # NoScore) =>
        /\ scOut.EfficiencyScore = 80 * Scale
        /\ scOut.FinancialHealthScore = 100 * Scale
        /\ 10 * scOut.TransparencyScore = 825 * Scale
        /\ scOut.GovernanceScore = 100 * Scale
        /\ 10 * scOut.OverallScore = 885 * Scale

C13_Witness == WorkedExample /\ scOut # NoScore /\ scOutNow = MaxNow

(***************************************************************************)
(* C14                                                                     *)
(***************************************************************************)
Requested == {dlReq[i] : i \in 1..Len(dlReq)}

Succeeded == {dlReq[i] : i \in {j \in 1..Len(dlReq) : dlGot[j] = "ok"}}

Failed == {dlReq[i] : i \in {j \in 1..Len(dlReq) : dlGot[j] = "err"}}

DistinctRequest == Cardinality(Requested) = Len(dlReq)

\* C14: DownloadFiles over a set of requested resources returns a non-nil
\* error exactly when at least one resource failed, the returned map holds
\* exactly the resources that succeeded, and each requested resource is in
\* exactly one of the result map and the error set, for every interleaving
\* of the per-resource goroutines.
C14_DownloadFilesPartition ==
    (dlpc = "returned" /\ DistinctRequest) =>
        /\ (dlRet = "err") <=> (Failed # {})
        /\ dlResults = Succeeded
        /\ dlErrors = Failed
        /\ dlResults \cup dlErrors = Requested
        /\ dlResults \cap dlErrors = {}

C14_Witness ==
    /\ dlpc = "returned"
    /\ DistinctRequest
    /\ Len(dlReq) = MaxFiles
    /\ dlRet = "err"
    /\ dlResults # {}

(***************************************************************************)
(* C15                                                                     *)
(***************************************************************************)
\* the key with the character at position i replaced by another one
OtherKey(key, i) ==
    [key EXCEPT ![i] = CHOOSE c \in KeyChars : c # key[i]]

\* some other key of the same length is reported under the same identifier
Ambiguous(key) ==
    \E i \in 1..Len(key) : MaskedKey(OtherKey(key, i)) = MaskedKey(key)

\* C15: for every configured key of any length, the identifier under which
\* GetKeyStats reports it exposes only the key's first 8 and last 4
\* characters, and never equals the key or lets one reconstruct it.
C15_KeyMasked ==
    mkDone =>
        /\ mkId # mkKey
        /\ Len(mkId) <= 8 + 3 + 4
        /\ Ambiguous(mkKey)

(***************************************************************************)
(* C16                                                                     *)
(***************************************************************************)
Retriable == {"neterr", "429", "500"}

\* the call is over and every attempt it made ended in a retriable outcome
AllRetriable(r) ==
    /\ rqpc[r] = "done"
    /\ sent[r] > 0
    /\ lastOutcome[r] \in Retriable

WrapsFinalError(r) ==
    /\ result[r] = "maxretries"
    /\ lastErr[r] = ErrOf(lastOutcome[r])

\* C16 as stated: one logical request sends at most maxRetries+1 HTTP
\* requests, and if every attempt ends in a retriable outcome doRequest ends
\* with an error that wraps the error of the final attempt.
C16_RetriesSurfaceLastError ==
    \A r \in Reqs :
        /\ sent[r] <= MaxRetries + 1
        /\ AllRetriable(r) => WrapsFinalError(r)

\* C16: one logical request sends at most maxRetries+1 HTTP requests, and if
\* every attempt ends in a retriable outcome doRequest ends either with the
\* context's error, the context having been cancelled during one of its
\* waits, or, after maxRetries+1 attempts, with an error that wraps the
\* error of the final attempt.
C16_RetriesSurfaceLastErrorOrCtx ==
    \A r \in Reqs :
        /\ sent[r] <= MaxRetries + 1
        /\ AllRetriable(r) =>
              \/ result[r] = "ctxerr" /\ ctxDone
              \/ WrapsFinalError(r) /\ sent[r] = MaxRetries + 1

\* several keys, every attempt answered 429, the retries used up
C16_Witness ==
    \E r \in Reqs :
        /\ AllRetriable(r)
        /\ numKeys > 1
        /\ lastOutcome[r] = "429"
        /\ result[r] = "maxretries"
        /\ keyFailed[currentKey[r]] >= 1

(***************************************************************************)
(* C17                                                                     *)
(***************************************************************************)
UncancelledRun == crpc = "wait" /\ cfgW >= 1 /\ ~cancelled

C18_CancelledRunReturns ==
    /\ ((crpc = "wait" /\ cancelled) ~> crpc # "wait")
    /\ (cancelled ~> (feedpc = "closed" \/ ~cancelled))
    /\ [](crpc = "done" => WgWaitReturns)

\* a cancelled run of two workers returned with identifiers left unprocessed
C18_Witness ==
    /\ crpc = "done"
    /\ cancelled
    /\ cfgW >= 2
    /\ feedpc = "closed"
    /\ failed >= 1
    /\ totalProcessed < EndCharity - runStart + 1

(***************************************************************************)
(* C19                                                                     *)
(***************************************************************************)
\* the call that was parked when the signal came has returned
BlockedCallReturned(c) == rlBlockedAtCancel[c] /\ rlpc[c] = "idle"

\* C19: if the cancellation signal is raised while a Wait caller is blocked
\* because the bucket is empty, that call returns the cancellation error,
\* and it consumes no token and records no request timestamp.
C19_CancelledWaitTakesNothing ==
    \A c \in Callers :
        /\ rlBlockedAtCancel[c] => rlpc[c] \in {"ctxwake", "idle"}
        /\ BlockedCallReturned(c) =>
              /\ rlResult[c] = "ctxerr"
              /\ tokens = rlSnap[1]
              /\ Len(requestHistory) = rlSnap[2]

\* the signal came during the second sleep of a call, and the call returned
C19_Witness ==
    \E c \in Callers :
        /\ BlockedCallReturned(c)
        /\ Len(requestHistory) >= rlRate
        /\ clock > lastRefill

(***************************************************************************)
(* C20                                                                     *)
(***************************************************************************)
\* an organisation the call is to score: primary, not removed, and without
\* a Score row when the call began
LackedScore(c) ==
    /\ c # NoOrg
    /\ c.linked_charity_number = 0
    /\ c.status \notin {"Removed", "RM"}
    /\ asBefore[c.registered_number] = NoRow

ScoredOrg(n) ==
    \E o \in OrgNumbers :
        /\ asCharities[o] # NoOrg
        /\ asCharities[o].registered_number = n
        /\ asCharities[o].linked_charity_number = 0
        /\ asCharities[o].status \notin {"Removed", "RM"}

\* C21: score mode recalculates scores: after the score driver has run on a
\* database in which an organization already had a Score row and its stored
\* data had changed, the row holds the score computed from the current data.
C21_ScoreModeRecalculates ==
    aspc = "done" =>
        \A n \in RegNumbers :
            (ScoredOrg(n) /\ asBefore[n] # NoRow /\ n \notin asChangedSince
                /\ n \notin asFailed)
            => asScores[n].overall_score = asCurrent[n]

(***************************************************************************)
(* C22                                                                     *)
(***************************************************************************)
\* the data CalculateScore read was complete and less than one year old
CompleteAndRecent ==
    /\ scOutNow - scIn.lastUpdated < 1
    /\ scIn.hasFinancial
    /\ scIn.website
    /\ scIn.trusteeCount > 0

\* C22: CalculateScore labels an organization's confidence "high" only when
\* its data was last updated less than one year ago and financial data,
\* website and trustees are all present.
C22_HighOnlyWhenCompleteAndRecent ==
    (scOut # NoScore /\ scOut.ConfidenceLevel = "high") => CompleteAndRecent

(***************************************************************************)
(* C23                                                                     *)
(***************************************************************************)
\* C23: at the end of an import of any record family the reported counters
\* satisfy Processed = Total Records and Processed = Successful + Failed +
\* Skipped, also when the input holds elements that fail to decode and, for
\* detailed financials, records without the latest-submitted flag.  (Stated
\* for the imports in which every batch transaction succeeded.)
C23_ImportCountersAgree ==
    (impc = "done" /\ ~imTxFailed) =>
        /\ processedRecords = totalRecords
        /\ processedRecords = successRecords + failedRecords + skippedRecords

(***************************************************************************)
(* C24                                                                     *)
(***************************************************************************)
\* the main routine reads s.stats.CurrentCharity for the final checkpoint
FinalCheckpointStep == crpc = "wait" /\ crpc' = "done"

\* C24: every read and every write of the crawler's shared counters happens
\* while the Stats mutex is held, in every interleaving of feeder, workers
\* and main routine, including a cancelled run in which the feeder is still
\* running when the final checkpoint is written.  (Stated for the read of
\* the final checkpoint: it holds the mutex, or no goroutine that writes
\* CurrentCharity is running.)
C24_CountersUnderMutex ==
    [][FinalCheckpointStep => (515 \in LockedStatsLines \/ ~FeederRunning)]_vars

(***************************************************************************)
(* C25                                                                     *)
(***************************************************************************)
\* call r, whose latest attempt was answered 429 with several keys and
\* retries left, selects the key of its next attempt
RotatedSelect(r) ==
    /\ numKeys > 1
    /\ rqpc[r] = "loop"
    /\ lastOutcome[r] = "429"
    /\ attempt[r] <= MaxRetries
    /\ rqpc'[r] = "wait"

\* C25: with more than one key configured and retries remaining, after an
\* attempt is answered 429 the next attempt of that same logical request is
\* sent with a different key than the rate-limited one, also when other
\* workers issue requests through the same client between the two attempts.
C25_RotatesToOtherKey ==
    [][\A r \in Reqs : RotatedSelect(r) => currentKey'[r] # currentKey[r]]_vars

(***************************************************************************)
(* C26                                                                     *)
(***************************************************************************)
\* call r runs on a single key and its latest attempt was answered 429
SingleKey429(r) == numKeys = 1 /\ lastOutcome[r] = "429"

\* the sleep that follows the 429 lasts Retry-After seconds when the header
\* holds an integer, else 2^a seconds
SleepsRetryAfter(r) ==
    rqpc[r] = "sleep" =>
        waitTime[r] = (IF lastRetryAfter[r] = "int" THEN RetryAfterSecs
                       ELSE Pow2(attempt[r]))

\* C26 as stated: with a single key, when attempt a < maxRetries is answered
\* 429, the client sleeps Retry-After seconds (an integer header) or 2^a
\* seconds before the next attempt, and no other sleep is added in between.
C26_SleepsRetryAfterOnly ==
    \A r \in Reqs :
        SingleKey429(r) =>
            /\ SleepsRetryAfter(r)
            /\ rqpc[r] = "backoff" => waitTime[r] = 0

\* C26: with a single key, when attempt a < maxRetries is answered 429, the
\* client sleeps Retry-After seconds (an integer header) or 2^a seconds, and
\* then, before it sends attempt a+1, the retry backoff of 2^a seconds.
C26_SleepsRetryAfterThenBackoff ==
    \A r \in Reqs :
        SingleKey429(r) =>
            /\ SleepsRetryAfter(r)
            /\ rqpc[r] = "backoff" => waitTime[r] = Pow2(attempt[r] - 1)

\* the backoff has begun after the sleep that followed a 429
C26_Witness ==
    \E r \in Reqs :
        /\ SingleKey429(r)
        /\ rqpc[r] = "backoff"
        /\ lastErr[r] = "ratelimited"
        /\ attempt[r] = MaxRetries

(***************************************************************************)
(* C27                                                                     *)
(***************************************************************************)
\* C27: every request attempt increments TotalRequests of the key selected
\* for it by exactly one, for any number of configured keys including one:
\* each key's TotalRequests is the number of attempts it was selected for,
\* and FailedRequests <= TotalRequests holds for every key.
C27_TotalRequestsCountsAttempts ==
    \A k \in Keys :
        /\ keyTotal[k] = selCount[k]
        /\ keyFailed[k] <= keyTotal[k]

(***************************************************************************)
(* C28                                                                     *)
(***************************************************************************)
\* element e decodes and passes the filter of the import loop (for detailed
\* financials: the latest-submitted flag)
Kept(e) == e.k = "ok" /\ (imFamily = "financial" => e.latest)

RECURSIVE KeptOf(_)
\* the kept records of a stretch of the input, in stream order
KeptOf(elems) ==
    IF elems = <<>> THEN <<>>
    ELSE (IF Kept(Head(elems)) THEN <<Head(elems)>> ELSE <<>>) \o KeptOf(Tail(elems))

\* C28: during an import the in-memory batch never holds more than BatchSize
\* records, and every successfully decoded record that passes the family's
\* filter is handed to exactly one flush, in stream order, the last partial
\* batch included.
C28_BatchesBoundedAndComplete ==
    /\ imPeak <= imBatchSize
    /\ Len(imBatch) <= imBatchSize
    /\ impc = "loop" => imFlushed \o imBatch = KeptOf(SubSeq(imInput, 1, imPos - 1))
    /\ impc = "done" => imFlushed = KeptOf(imInput)

\* an import that flushed a full batch and then a last partial one
C28_Witness ==
    /\ impc = "done"
    /\ imPeak = imBatchSize
    /\ imBatchSize > 1
    /\ Len(imFlushed) > imBatchSize
    /\ Len(imBatch) \in 1..(imBatchSize - 1)

(***************************************************************************)
(* C29                                                                     *)
(***************************************************************************)
\* the step flushed a batch and its transaction failed at Begin, Prepare or
\* Commit
FailedFlushStep == imLastTx' \in {"beginfail", "preparefail", "commitfail"}

\* C29: if the transaction of one batch fails (begin, prepare or commit), none
\* of that batch's rows is persisted, the rows of earlier committed batches
\* are unchanged, and the import goes on with the following batches and still
\* returns without error.
C29_FailedBatchLeavesStoreAndGoesOn ==
    [][FailedFlushStep =>
         /\ UNCHANGED <<charities, financials, trustees, history, histSeq>>
         /\ imFlushed' # imFlushed
         /\ \/ impc' = "loop" /\ imBatch' = <<>> /\ imPos' = imPos + 1
            \/ impc' = "done" /\ imFlushed' = KeptOf(imInput)]_vars

\* an import whose earlier batch failed, whose last batch was committed, and
\* which returned
C29_Witness ==
    /\ impc = "done"
    /\ imPass = 1
    /\ imTxFailed
    /\ imLastTx = "ok"
    /\ Len(imBatch) > 0
    /\ Len(imFlushed) > Len(imBatch)
    /\ Content # NoContent

(***************************************************************************)
(* C30                                                                     *)
(***************************************************************************)
\* the number of Wait calls that returned nil within the trailing w ticks
CompletedWithin(w) ==
    Cardinality({i \in 1..Len(rlCompleted) : rlCompleted[i] > clock - w})

\* C30: GetStats returns, as its last-minute and last-second counts, the
\* number of Wait calls that completed successfully within the trailing 60
\* seconds and the trailing 1 second respectively, for every rate and every
\* request history.
C30_StatsCountCompletedWaits ==
    GetStats(clock) = <<CompletedWithin(Minute), CompletedWithin(Second)>>

(***************************************************************************)
(* C31                                                                     *)
(***************************************************************************)
\* the step is a CalculateScore call made while the registration number has
\* no primary row
CallWithoutPrimaryRow == ~scIn.exists /\ scCalls' = scCalls + 1

\* C31: when no primary (linked id 0) organization row exists for the
\* requested registration number, CalculateScore returns an error and writes
\* nothing: the Score table is unchanged, whether or not caching is enabled.
C31_NotFoundWritesNothing ==
    [][CallWithoutPrimaryRow => scErr' /\ scOut' = NoScore /\ scoreRow' = scoreRow]_vars

\* a call that failed for want of a primary row while a score row was stored
C31_Witness ==
    /\ ~scIn.exists
    /\ scErr
    /\ scOut = NoScore
    /\ scPrev # NoScore
    /\ scoreRow # NoScore

(***************************************************************************)
(* C32                                                                     *)
(***************************************************************************)
\* the run has ended and its final checkpoint is written
RunEnded == crpc = "done" /\ checkpoint >= runStart

\* C32: at the moment a crawl run ends (normally or after cancellation),
\* every identifier from the run's starting point up to the persisted
\* checkpoint has been fully processed (counted as success, failed or
\* skipped), so that a restart that resumes from the checkpoint leaves no
\* identifier of the range unprocessed across the two runs.  No identifier is
\* received twice, so TotalProcessed is the number of identifiers processed;
\* the restart begins with the checkpointed identifier itself, so the
\* identifiers strictly below the checkpoint are the ones that must be done.
C32_ProcessedUpToCheckpoint ==
    RunEnded => totalProcessed >= checkpoint - runStart

(***************************************************************************)
(* C33                                                                     *)
(***************************************************************************)
\* the step is a successful return of Wait
WaitSucceeds == Len(rlCompleted') = Len(rlCompleted) + 1

\* C33: with any number of concurrent Wait callers on one RateLimiter, the
\* token count always stays within 0..maxTokens, and every successful Wait
\* return corresponds to exactly one token decrement taken while the count
\* was positive (no two callers consume the same token): the returns and the
\* tokens left never exceed the tokens handed out, the initial r and one per
\* elapsed refill interval.
C33_TokensConserved ==
    /\ [](tokens \in 0..maxTokens)
    /\ [](Len(rlCompleted) + tokens <= rlRate + clock \div refillInterval)
    /\ [][/\ WaitSucceeds => RefilledTokens(clock) > 0 /\ tokens' = RefilledTokens(clock) - 1
          /\ tokens' < tokens => WaitSucceeds
          /\ rlCompleted' # rlCompleted => WaitSucceeds]_vars

\* both callers have returned nil, after more returns than the initial bucket
\* held, and the bucket is empty
C33_Witness ==
    /\ \A c \in SharedCallers : rlResult[c] = "nil" /\ rlpc[c] = "idle"
    /\ Len(rlCompleted) > rlRate + 1
    /\ rlRate >= 2
    /\ tokens = 0

(***************************************************************************)
(* C34                                                                     *)
(***************************************************************************)
\* the content of a store value, write timestamps dropped
ContentOf(db) ==
    [c |-> {[org |-> r.org, reg |-> r.reg, linked |-> r.linked, v |-> r.v] : r \in db.c},
     f |-> {[charity |-> r.charity, fye |-> r.fye, v |-> r.v] : r \in db.f},
     t |-> {[charity |-> r.charity, name |-> r.name] : r \in db.t},
     h |-> db.h]

\* the store after the whole stream went in as one batch: it does not
\* depend on the batch size
OneBatchStore ==
    InsertBatch(imFamily, [c |-> {}, f |-> {}, t |-> {}, h |-> {}, seq |-> 0],
                KeptOf(imInput), 0)

\* a first import into the empty store has returned, no transaction failed
CleanImportDone == impc = "done" /\ imPass = 1 /\ ~imTxFailed

\* the positions of the inserted records
Inserted == {i \in 1..Len(imInput) : Kept(imInput[i]) /\ Valid(imFamily, imInput[i])}

\* the record at the last of the positions I
LastOf(I) == imInput[CHOOSE i \in I : \A j \in I : j <= i]

\* C34: for every input stream and every two batch sizes b1, b2 >= 1, when no
\* transaction fails, importing the stream with batch size b1 and with batch
\* size b2 leaves the same store content (the content of the one-batch
\* import, whatever the batch size); for records sharing a key, the stored
\* row is the one of the last such record in stream order.
C34_BatchSizeIrrelevant ==
    CleanImportDone =>
        /\ Content = ContentOf(OneBatchStore)
        /\ imFamily = "charity" =>
             \A r \in charities :
                LET I == {i \in Inserted : imInput[i].org = r.org}
                IN  I # {} /\ r.v = LastOf(I).v /\ r.reg = LastOf(I).reg
        /\ imFamily = "financial" =>
             \A r \in financials :
                LET I == {i \in Inserted : imInput[i].reg = r.charity /\ imInput[i].fye = r.fye}
                IN  I # {} /\ r.v = LastOf(I).v
        /\ imFamily = "trustee" =>
             \A r \in trustees :
                {i \in Inserted : imInput[i].reg = r.charity /\ imInput[i].name = r.name} # {}

\* a stream of financial records in which a key comes back with other
\* values, imported in a full batch and a partial one
C34_Witness ==
    /\ CleanImportDone
    /\ imFamily = "financial"
    /\ imBatchSize > 1
    /\ Len(imFlushed) > imBatchSize
    /\ \E i, j \in Inserted :
          /\ i < j
          /\ imInput[i].reg = imInput[j].reg
          /\ imInput[i].fye = imInput[j].fye
          /\ imInput[i].v # imInput[j].v

(***************************************************************************)
(* C35                                                                     *)
(***************************************************************************)
\* C35: the importer's SuccessRecords counter never exceeds the number of
\* records whose rows were actually committed: a record is counted as success
\* only if the transaction of its batch commits.
C35_SuccessOnlyWhenCommitted ==
    [][successRecords' > successRecords => imLastTx' = "ok"]_vars

(***************************************************************************)
(* C36                                                                     *)
(***************************************************************************)
\* one pass of the element loop: `for decoder.More()` ran its body once
LoopIteration == impc = "loop" /\ impc' = "loop" /\ imPass' = imPass

\* C36: every import over a finite input stream terminates: the element loop
\* of the stream importer ends after finitely many steps for every input,
\* including an input in which decoding an element fails with a syntax error
\* that the decoder keeps reporting.  In finite-run form: every pass of the
\* loop moves the decoder forward in the stream, so the unread rest of the
\* finite input bounds the number of passes.
C36_LoopConsumesInput ==
    [][LoopIteration => imPos' > imPos]_vars

(***************************************************************************)
(* C37                                                                     *)
(***************************************************************************)
\* the organization row, the financial row and every trustee of the data
\* process p fetched are in the store
StoredAll(p) ==
    LET d == stData[p]
    IN  /\ \E r \in charities : r.reg = d.reg
        /\ \E r \in financials : r.charity = d.reg /\ r.fye = d.fye
        /\ \A i \in 1..Len(d.names) :
              \E r \in trustees : r.charity = d.reg /\ r.name = d.names[i]

\* the step is FetchAndStoreCharity returning nil to process p
FetchReturnsNil(p) == stpc[p] = "fs" /\ stpc'[p] = "idle" /\ stResult'[p] = "ok"

\* C37: if the on-demand FetchAndStoreCharity returns without error, the
\* organization row, its financial row and every trustee parsed from the
\* response are all stored; a failure of the financial or of a trustee write
\* never leaves a stored organization reported as a successful fetch.
C37_NilMeansAllStored ==
    [][\A p \in StoreProcs : FetchReturnsNil(p) => StoredAll(p)']_vars

(***************************************************************************)
(* C38                                                                     *)
(***************************************************************************)
\* C38: once the server has signalled readiness, every later request to the
\* /health endpoint is answered OK (200): readiness, once reached, is never
\* reported as "Initializing" again, for any number and interleaving of
\* health requests.
C38_ReadyStaysReady ==
    \A i \in 1..Len(hlLog) : hlLog[i].late => hlLog[i].code = 200

====
